---- MODULE Spec2Model ----
(***************************************************************************)
(* Sub-protocol layer of the composite proof system:                       *)
(*   proof_system/src/sub_protocols/schnorr.rs  (SchnorrProtocol)          *)
(*   proof_system/src/sub_protocols.rs          (PoKBBSSigG1SubProtocol,   *)
(*       AccumulatorMembershipSubProtocol,                                 *)
(*       AccumulatorNonMembershipSubProtocol, SubProtocol)                 *)
(*                                                                         *)
(* One sub-protocol instance `sp` is driven through arbitrary sequences of *)
(* init / challenge_contribution / gen_proof_contribution /                *)
(* verify_proof_contribution calls.  Every operation is a pure operator    *)
(* from the instance and the call's arguments to an outcome record         *)
(*   [self, result, proof, wrote, draws, collab]                           *)
(* (the instance afterwards, the Result returned, the StatementProof       *)
(* returned, the bytes written to the writer, the number of scalars drawn  *)
(* from the rng, the collaborator functions invoked); the actions apply    *)
(* the operators and record the outcome of the latest call in `last`,      *)
(* with the public shape of its arguments (`shape`: the indices the        *)
(* witness of a signature init holds, the challenge handed to             *)
(* gen_proof_contribution, the variant tag of the proof handed to verify). *)
(*                                                                         *)
(* A second specification, CheckSpec, follows the scenario of              *)
(*   proof_system/tests/bound_check_smc_with_kv.rs  (fn check)             *)
(* in `run`: a signature statement and a bound-check statement whose       *)
(* witnesses are linked by one equality constraint are proved and then     *)
(* verified by the composite-proof orchestrator.                           *)
(***************************************************************************)
EXTENDS Integers, Sequences, FiniteSets, TLC

VARIABLES sp, last, ghost, run

vars == <<sp, last, ghost, run>>

(***************************************************************************)
(* Bounds of the model.                                                    *)
(***************************************************************************)
MaxId == 1
MaxLen == 2
MaxMsgs == 2

\* The longest iterator handed to the functions of utils/src/iter.rs.
MaxItems == 3

(***************************************************************************)
(* The scalar field G::ScalarField / E::Fr as Z_FieldOrder, and the group  *)
(* G written additively by discrete logarithm: the point with logarithm x  *)
(* is x, the group law is + mod FieldOrder, scalar multiplication is       *)
(* * mod FieldOrder.                                                       *)
(***************************************************************************)
FieldOrder == 3

Scalars == 0..(FieldOrder - 1)

Group == 0..(FieldOrder - 1)

FAdd(a, b) == (a + b) % FieldOrder

FMul(a, b) == (a * b) % FieldOrder

\* The first and the last statement id.
Ids == {0, MaxId}

(***************************************************************************)
(* Option<T>: None is the empty tuple, Some(x) the one-element tuple.      *)
(***************************************************************************)
None == <<>>

Some(x) == <<x>>

IsSome(o) == Len(o) = 1

IsNone(o) == Len(o) = 0

Unwrap(o) == o[1]

MinOf(S) == CHOOSE x \in S : \A y \in S : x <= y

(***************************************************************************)
(* ProofSystemError.  `args` are the integer payloads of the variant,      *)
(* `fmt` the statement whose Debug rendering the variant carries.          *)
(***************************************************************************)
Error(name, args, fmt) == [name |-> name, args |-> args, fmt |-> fmt]

SubProtocolAlreadyInitialized(id) ==
    Error("SubProtocolAlreadyInitialized", <<id>>, None)

SubProtocolNotReadyToGenerateChallenge(id) ==
    Error("SubProtocolNotReadyToGenerateChallenge", <<id>>, None)

SubProtocolNotReadyToGenerateProofId(id) ==
    Error("SubProtocolNotReadyToGenerateProof", <<id>>, None)

SubProtocolNotReadyToGenerateProofFmt(statement) ==
    Error("SubProtocolNotReadyToGenerateProof", <<>>, Some(statement))

BBSPlusProtocolMessageAbsent(id, i) ==
    Error("BBSPlusProtocolMessageAbsent", <<id, i>>, None)

ProofIncompatibleWithProtocol(statement) ==
    Error("ProofIncompatibleWithProtocol", <<>>, Some(statement))

ProofIncompatibleWithSchnorrProtocol ==
    Error("ProofIncompatibleWithSchnorrProtocol", <<>>, None)

\* An error of a collaborator crate converted by `?` / `.into()`.
CollaboratorError(name) == Error(name, <<>>, None)

Ok == [ok |-> TRUE, err |-> None]

Err(e) == [ok |-> FALSE, err |-> Some(e)]

(***************************************************************************)
(* Outcome of one call.                                                    *)
(***************************************************************************)
Outcome(self, result, proof, wrote, draws, collab) ==
    [self |-> self, result |-> result, proof |-> proof, wrote |-> wrote,
     draws |-> draws, collab |-> collab]

\* An early `return Err(e)`: nothing changed, written, drawn or called.
Fail(self, e) == Outcome(self, Err(e), None, <<>>, 0, {})

(***************************************************************************)
(* StatementProof: the variant tag and the variant's payload.              *)
(***************************************************************************)
Tags == {"PoKBBSSignatureG1", "AccumulatorMembership",
         "AccumulatorNonMembership", "PedersenCommitment"}

StatementProof(tag, p) == [tag |-> tag, p |-> p]

(***************************************************************************)
(* Canonical serialization: a group element or scalar is one byte, a       *)
(* slice is its length followed by its elements.                           *)
(***************************************************************************)
SerSlice(s) == <<Len(s)>> \o s

SerElem(x) == <<x>>

(***************************************************************************)
(* The random generator: a stream of scalars, read front to back; two     *)
(* generators, of different seeds.                                         *)
(***************************************************************************)
RngSeeds == {0, 1}

RngStreams ==
    {[i \in 1..(MaxLen + 1) |-> (i + k) % FieldOrder] : k \in RngSeeds}

(***************************************************************************)
(* schnorr_pok::SchnorrCommitment and SchnorrResponse.                     *)
(***************************************************************************)
RECURSIVE MultiScalarMul(_, _)
MultiScalarMul(bases, scalars) ==
    IF bases = <<>> \/ scalars = <<>> THEN 0
    ELSE FAdd(FMul(Head(bases), Head(scalars)),
              MultiScalarMul(Tail(bases), Tail(scalars)))

SchnorrCommitmentNew(bases, blindings) ==
    [blindings |-> blindings, t |-> MultiScalarMul(bases, blindings)]

\* SchnorrCommitment::response: s_i = r_i + challenge * w_i.
SchnorrCommitmentResponse(commitment, witnesses, challenge) ==
    IF Len(commitment.blindings) # Len(witnesses)
    THEN [ok |-> FALSE, val |-> <<>>]
    ELSE [ok |-> TRUE,
          val |-> [i \in 1..Len(witnesses) |->
                      FAdd(commitment.blindings[i], FMul(challenge, witnesses[i]))]]

\* SchnorrResponse::is_valid: sum g_i * s_i = t + challenge * y.
SchnorrResponseIsValid(response, bases, y, t, challenge) ==
    IF Len(response) # Len(bases)
    THEN Err(CollaboratorError("SchnorrError::ExpectedSameSizeSequences"))
    ELSE IF MultiScalarMul(bases, response) = FAdd(t, FMul(challenge, y))
         THEN Ok
         ELSE Err(CollaboratorError("SchnorrError::InvalidResponse"))

\* Zeroize for SchnorrCommitment: the blindings are overwritten with zero.
SchnorrCommitmentZeroize(commitment) ==
    [commitment EXCEPT !.blindings = [i \in 1..Len(commitment.blindings) |-> 0]]

(***************************************************************************)
(* SchnorrProtocol (schnorr.rs).                                           *)
(***************************************************************************)
SchnorrProtocolNew(id, commitment_key, commitment) ==
    [kind |-> "Schnorr", id |-> id, commitment_key |-> commitment_key,
     commitment |-> commitment, commitment_to_randomness |-> None,
     witnesses |-> None]

\* Positions of 0..n-1 the blindings map has no entry for, ascending;
\* position i (0-based) is the i-th witness.
MissingBefore(blindings, i) == Cardinality({j \in 0..(i - 1) : j \notin DOMAIN blindings})

\* Mutant: the rng is consulted at every position, supplied or not.
SchnorrBuildBlindings_DrawsAtEveryPosition(rng, blindings, n) ==
    [i \in 1..n |->
        IF (i - 1) \in DOMAIN blindings
        THEN blindings[i - 1]
        ELSE rng[i]]

SchnorrBuildBlindings(rng, blindings, n) ==
    [i \in 1..n |->
        IF (i - 1) \in DOMAIN blindings
        THEN blindings[i - 1]
        ELSE rng[MissingBefore(blindings, i - 1) + 1]]

\* Mutant: init without its guard.
SchnorrInitGuard_Never(self) == FALSE

SchnorrInitGuard(self) == IsSome(self.commitment_to_randomness)

\* Mutant: one blinding for each base of the commitment key, where the code
\* has one for each witness.
SchnorrInit_BlindingPerBase(self, rng, blindings, witnesses) ==
    IF SchnorrInitGuard(self)
    THEN Fail(self, SubProtocolAlreadyInitialized(self.id))
    ELSE LET n == Len(self.commitment_key)
             bl == SchnorrBuildBlindings(rng, blindings, n)
         IN Outcome([self EXCEPT
                        !.commitment_to_randomness =
                            Some(SchnorrCommitmentNew(self.commitment_key, bl)),
                        !.witnesses = Some(witnesses)],
                    Ok, None, <<>>, MissingBefore(blindings, n), {})

SchnorrInit(self, rng, blindings, witnesses) ==
    IF SchnorrInitGuard(self)
    THEN Fail(self, SubProtocolAlreadyInitialized(self.id))
    ELSE LET n == Len(witnesses)
             bl == SchnorrBuildBlindings(rng, blindings, n)
         IN Outcome([self EXCEPT
                        !.commitment_to_randomness =
                            Some(SchnorrCommitmentNew(self.commitment_key, bl)),
                        !.witnesses = Some(witnesses)],
                    Ok, None, <<>>, MissingBefore(blindings, n), {})

SchnorrChallengeGuard(self) == IsNone(self.commitment_to_randomness)

SchnorrChallengeContribution(self) ==
    IF SchnorrChallengeGuard(self)
    THEN Fail(self, SubProtocolNotReadyToGenerateChallenge(self.id))
    ELSE Outcome(self, Ok, None,
                 SerSlice(self.commitment_key) \o SerElem(self.commitment)
                     \o SerElem(Unwrap(self.commitment_to_randomness).t),
                 0, {})

\* Mutant: t is written before y.
SchnorrComputeChallengeContribution_TBeforeY(bases, y, t) ==
    SerSlice(bases) \o SerElem(t) \o SerElem(y)

SchnorrComputeChallengeContribution(bases, y, t) ==
    SerSlice(bases) \o SerElem(y) \o SerElem(t)

SchnorrGenProofGuard(self) == IsNone(self.commitment_to_randomness)

\* Option::take on commitment_to_randomness.
SchnorrTake(self) == [self EXCEPT !.commitment_to_randomness = None]

\* Mutant: the blindings are handed to response() in place of the witnesses.
SchnorrGenProofContributionAsStruct_BlindingsAsWitnesses(self, challenge) ==
    IF SchnorrGenProofGuard(self)
    THEN Fail(self, SubProtocolNotReadyToGenerateProofId(self.id))
    ELSE LET commitment == Unwrap(self.commitment_to_randomness)
             responses == SchnorrCommitmentResponse(commitment,
                              commitment.blindings, challenge)
         IN Outcome(SchnorrTake(self), Ok,
                    Some([t |-> commitment.t, response |-> responses.val]),
                    <<>>, 0, {"response"})

SchnorrGenProofContributionAsStruct(self, challenge) ==
    IF SchnorrGenProofGuard(self)
    THEN Fail(self, SubProtocolNotReadyToGenerateProofId(self.id))
    ELSE LET commitment == Unwrap(self.commitment_to_randomness)
             responses == SchnorrCommitmentResponse(commitment,
                              Unwrap(self.witnesses), challenge)
         IN IF ~responses.ok
            THEN Outcome(SchnorrTake(self),
                     Err(CollaboratorError("SchnorrError::ExpectedSameSizeSequences")),
                     None, <<>>, 0, {"response"})
            ELSE Outcome(SchnorrTake(self), Ok,
                     Some([t |-> commitment.t, response |-> responses.val]),
                     <<>>, 0, {"response"})

SchnorrGenProofContribution(self, challenge) ==
    LET o == SchnorrGenProofContributionAsStruct(self, challenge)
    IN IF o.result.ok
       THEN [o EXCEPT !.proof = Some(StatementProof("PedersenCommitment", Unwrap(o.proof)))]
       ELSE o

\* Mutant: the commitment and the proof's t change places in is_valid.
SchnorrVerifyProofContributionAsStruct_SwappedYT(self, challenge, p) ==
    Outcome(self,
            SchnorrResponseIsValid(p.response, self.commitment_key,
                                   p.t, self.commitment, challenge),
            None, <<>>, 0, {"verify"})

SchnorrVerifyProofContributionAsStruct(self, challenge, p) ==
    Outcome(self,
            SchnorrResponseIsValid(p.response, self.commitment_key,
                                   self.commitment, p.t, challenge),
            None, <<>>, 0, {"verify"})

SchnorrProofMatches(proof) == proof.tag = "PedersenCommitment"

\* Zeroize for SchnorrProtocol, which Drop runs: whatever the two slots
\* hold is overwritten in place, the slots stay as full as they were.
SchnorrZeroize(self) ==
    [self EXCEPT
        !.commitment_to_randomness =
            IF IsSome(self.commitment_to_randomness)
            THEN Some(SchnorrCommitmentZeroize(Unwrap(self.commitment_to_randomness)))
            ELSE None,
        !.witnesses =
            IF IsSome(self.witnesses)
            THEN Some([i \in 1..Len(Unwrap(self.witnesses)) |-> 0])
            ELSE None]

SchnorrVerifyProofContribution(self, challenge, proof) ==
    IF SchnorrProofMatches(proof)
    THEN SchnorrVerifyProofContributionAsStruct(self, challenge, proof.p)
    ELSE Fail(self, ProofIncompatibleWithSchnorrProtocol)

(***************************************************************************)
(* Collaborator bbs_plus::proof::PoKOfSignatureG1Protocol, by its          *)
(* contract: init draws the commitment randomness and may fail, gen_proof  *)
(* binds the challenge and may fail, verify is a function of the proof,    *)
(* the revealed messages and the challenge.  `sound` is the collaborator's *)
(* own verdict on its inputs (whether its checks pass).  Every hidden      *)
(* message is a linkable witness: it has a blinding, the one the caller    *)
(* supplies for its index or one drawn from the rng after r, and the proof *)
(* carries its response blinding + challenge * message.                    *)
(***************************************************************************)
\* The i-th scalar read from the stream, which starts over at its end.
RngAt(rng, i) == rng[((i - 1) % Len(rng)) + 1]

\* The hidden indices below i the caller supplies no blinding for.
HiddenMissingBefore(n, blindings, revealed_indices, i) ==
    Cardinality({j \in 0..(i - 1) :
                    j < n /\ j \notin revealed_indices /\ j \notin DOMAIN blindings})

PoKOfSignatureG1ProtocolDraws(messages, blindings, revealed_indices) ==
    1 + HiddenMissingBefore(Len(messages), blindings, revealed_indices, Len(messages))

PoKOfSignatureG1ProtocolInit(rng, signature, params, messages, blindings, revealed_indices, sound) ==
    IF ~sound
    THEN [ok |-> FALSE, val |-> None]
    ELSE [ok |-> TRUE,
          val |-> Some([signature |-> signature, messages |-> messages,
                        blindings |->
                            [i \in (0..(Len(messages) - 1)) \ revealed_indices |->
                                IF i \in DOMAIN blindings
                                THEN blindings[i]
                                ELSE RngAt(rng, 2 + HiddenMissingBefore(Len(messages),
                                                      blindings, revealed_indices, i))],
                        revealed_indices |-> revealed_indices, r |-> rng[1]])]

PoKOfSignatureG1ProtocolGenProof(protocol, challenge, sound) ==
    IF ~sound
    THEN [ok |-> FALSE, val |-> None]
    ELSE [ok |-> TRUE,
          val |-> Some([signature |-> protocol.signature,
                        messages |-> protocol.messages,
                        revealed_indices |-> protocol.revealed_indices,
                        responses |->
                            [i \in DOMAIN protocol.blindings |->
                                FAdd(protocol.blindings[i],
                                     FMul(challenge, protocol.messages[i + 1]))],
                        t |-> protocol.r, challenge |-> challenge])]

PoKOfSignatureG1ProtocolChallengeContribution(protocol, revealed_messages, params) ==
    <<params.max_message_count, protocol.r>>
        \o [i \in 1..Len(protocol.messages) |->
               IF (i - 1) \in DOMAIN revealed_messages
               THEN revealed_messages[i - 1] ELSE FieldOrder]

PoKOfSignatureG1ProofVerify(p, revealed_messages, challenge, params) ==
    IF /\ p.signature = 1
       /\ p.challenge = challenge
       /\ Len(p.messages) = params.max_message_count
       /\ \A i \in p.revealed_indices :
              /\ i \in DOMAIN revealed_messages
              /\ i < Len(p.messages)
              /\ p.messages[i + 1] = revealed_messages[i]
    THEN Ok
    ELSE Err(CollaboratorError("BBSPlusError"))

(***************************************************************************)
(* PoKBBSSigG1SubProtocol (sub_protocols.rs).                              *)
(***************************************************************************)
PoKBBSSigG1SubProtocolNew(id, statement) ==
    [kind |-> "PoKBBSSignatureG1", id |-> id, statement |-> statement,
     protocol |-> None]

\* The loop of init over the slots i..max_message_count-1, with the
\* messages and revealed indices collected so far: the first slot that
\* neither side has ends it.
\* Mutant: a slot neither side has is passed over instead of ending init.
RECURSIVE BBSCollectMessages_SkipAbsent(_, _, _, _, _)
BBSCollectMessages_SkipAbsent(self, witness, i, messages, revealed_indices) ==
    IF i >= self.statement.params.max_message_count
    THEN [ok |-> TRUE, messages |-> messages,
          revealed_indices |-> revealed_indices, absent |-> 0]
    ELSE IF i \in DOMAIN witness.unrevealed_messages
         THEN BBSCollectMessages_SkipAbsent(self, witness, i + 1,
                  Append(messages, witness.unrevealed_messages[i]),
                  revealed_indices)
         ELSE IF i \in DOMAIN self.statement.revealed_messages
              THEN BBSCollectMessages_SkipAbsent(self, witness, i + 1,
                       Append(messages, self.statement.revealed_messages[i]),
                       revealed_indices \cup {i})
              ELSE BBSCollectMessages_SkipAbsent(self, witness, i + 1,
                       messages, revealed_indices)

\* Mutant: a slot the statement reveals is taken from the statement even
\* when the witness supplies it.
RECURSIVE BBSCollectMessages_StatementFirst(_, _, _, _, _)
BBSCollectMessages_StatementFirst(self, witness, i, messages, revealed_indices) ==
    IF i >= self.statement.params.max_message_count
    THEN [ok |-> TRUE, messages |-> messages,
          revealed_indices |-> revealed_indices, absent |-> 0]
    ELSE IF i \in DOMAIN self.statement.revealed_messages
         THEN BBSCollectMessages_StatementFirst(self, witness, i + 1,
                  Append(messages, self.statement.revealed_messages[i]),
                  revealed_indices \cup {i})
         ELSE IF i \in DOMAIN witness.unrevealed_messages
              THEN BBSCollectMessages_StatementFirst(self, witness, i + 1,
                       Append(messages, witness.unrevealed_messages[i]),
                       revealed_indices)
              ELSE [ok |-> FALSE, messages |-> messages,
                    revealed_indices |-> revealed_indices, absent |-> i]

RECURSIVE BBSCollectMessages(_, _, _, _, _)
BBSCollectMessages(self, witness, i, messages, revealed_indices) ==
    IF i >= self.statement.params.max_message_count
    THEN [ok |-> TRUE, messages |-> messages,
          revealed_indices |-> revealed_indices, absent |-> 0]
    ELSE IF i \in DOMAIN witness.unrevealed_messages
         THEN BBSCollectMessages(self, witness, i + 1,
                  Append(messages, witness.unrevealed_messages[i]),
                  revealed_indices)
         ELSE IF i \in DOMAIN self.statement.revealed_messages
              THEN BBSCollectMessages(self, witness, i + 1,
                       Append(messages, self.statement.revealed_messages[i]),
                       revealed_indices \cup {i})
              ELSE [ok |-> FALSE, messages |-> messages,
                    revealed_indices |-> revealed_indices, absent |-> i]

\* Mutant: the blindings the caller supplies are not handed on.
BBSInit_DropsBlindings(self, rng, blindings, witness, sound) ==
    LET c == BBSCollectMessages(self, witness, 0, <<>>, {})
    IN IF ~c.ok
       THEN Fail(self, BBSPlusProtocolMessageAbsent(self.id, c.absent))
       ELSE LET protocol == PoKOfSignatureG1ProtocolInit(rng,
                                witness.signature, self.statement.params,
                                c.messages, <<>>, c.revealed_indices,
                                sound)
            IN IF ~protocol.ok
               THEN Outcome(self, Err(CollaboratorError("BBSPlusError")),
                            None, <<>>, 0, {"init"})
               ELSE Outcome([self EXCEPT !.protocol = protocol.val],
                            Ok, None, <<>>,
                            PoKOfSignatureG1ProtocolDraws(c.messages, <<>>,
                                                          c.revealed_indices),
                            {"init"})

\* Mutant: init empties the slot before it starts, so a failing init loses
\* the protocol an earlier init stored.
BBSInit_ClearsFirst(self, rng, blindings, witness, sound) ==
    LET cleared == [self EXCEPT !.protocol = None]
        c == BBSCollectMessages(self, witness, 0, <<>>, {})
    IN IF ~c.ok
       THEN Fail(cleared, BBSPlusProtocolMessageAbsent(self.id, c.absent))
       ELSE LET protocol == PoKOfSignatureG1ProtocolInit(rng,
                                witness.signature, self.statement.params,
                                c.messages, blindings, c.revealed_indices,
                                sound)
            IN IF ~protocol.ok
               THEN Outcome(cleared, Err(CollaboratorError("BBSPlusError")),
                            None, <<>>, 0, {"init"})
               ELSE Outcome([self EXCEPT !.protocol = protocol.val],
                            Ok, None, <<>>,
                            PoKOfSignatureG1ProtocolDraws(c.messages, blindings,
                                                          c.revealed_indices),
                            {"init"})

\* init does not look at self.protocol: it goes straight to the loop.
BBSInit(self, rng, blindings, witness, sound) ==
    LET c == BBSCollectMessages(self, witness, 0, <<>>, {})
    IN IF ~c.ok
       THEN Fail(self, BBSPlusProtocolMessageAbsent(self.id, c.absent))
       ELSE LET protocol == PoKOfSignatureG1ProtocolInit(rng,
                                witness.signature, self.statement.params,
                                c.messages, blindings, c.revealed_indices,
                                sound)
            IN IF ~protocol.ok
               THEN Outcome(self, Err(CollaboratorError("BBSPlusError")),
                            None, <<>>, 0, {"init"})
               ELSE Outcome([self EXCEPT !.protocol = protocol.val],
                            Ok, None, <<>>,
                            PoKOfSignatureG1ProtocolDraws(c.messages, blindings,
                                                          c.revealed_indices),
                            {"init"})

BBSChallengeGuard(self) == IsNone(self.protocol)

BBSChallengeContribution(self) ==
    IF BBSChallengeGuard(self)
    THEN Fail(self, SubProtocolNotReadyToGenerateChallenge(self.id))
    ELSE Outcome(self, Ok, None,
                 PoKOfSignatureG1ProtocolChallengeContribution(
                     Unwrap(self.protocol), self.statement.revealed_messages,
                     self.statement.params),
                 0, {"challenge_contribution"})

BBSGenProofGuard(self) == IsNone(self.protocol)

\* Mutant: as_ref() where the code has take(): the slot stays full.
TakeProtocol_AsRef(self) == self

\* Option::take on protocol.
TakeProtocol(self) == [self EXCEPT !.protocol = None]

\* Mutant: the protocol is put back when the collaborator's gen_proof fails.
BBSGenProofContribution_TakeOnSuccess(self, challenge, sound) ==
    IF BBSGenProofGuard(self)
    THEN Fail(self, SubProtocolNotReadyToGenerateProofFmt(self.statement))
    ELSE LET proof == PoKOfSignatureG1ProtocolGenProof(Unwrap(self.protocol),
                          challenge, sound)
         IN IF ~proof.ok
            THEN Outcome(self, Err(CollaboratorError("BBSPlusError")),
                         None, <<>>, 0, {"gen_proof"})
            ELSE Outcome(TakeProtocol(self), Ok,
                         Some(StatementProof("PoKBBSSignatureG1", Unwrap(proof.val))),
                         <<>>, 0, {"gen_proof"})

BBSGenProofContribution(self, challenge, sound) ==
    IF BBSGenProofGuard(self)
    THEN Fail(self, SubProtocolNotReadyToGenerateProofFmt(self.statement))
    ELSE LET proof == PoKOfSignatureG1ProtocolGenProof(Unwrap(self.protocol),
                          challenge, sound)
         IN IF ~proof.ok
            THEN Outcome(TakeProtocol(self), Err(CollaboratorError("BBSPlusError")),
                         None, <<>>, 0, {"gen_proof"})
            ELSE Outcome(TakeProtocol(self), Ok,
                         Some(StatementProof("PoKBBSSignatureG1", Unwrap(proof.val))),
                         <<>>, 0, {"gen_proof"})

BBSProofMatches(proof) == proof.tag = "PoKBBSSignatureG1"

\* Mutant: the error renders the whole sub-protocol, live protocol
\* included, where the code renders the statement.
BBSVerifyProofContribution_ErrorShowsSelf(self, challenge, proof) ==
    IF BBSProofMatches(proof)
    THEN Outcome(self,
                 PoKOfSignatureG1ProofVerify(proof.p,
                     self.statement.revealed_messages, challenge,
                     self.statement.params),
                 None, <<>>, 0, {"verify"})
    ELSE Fail(self, ProofIncompatibleWithProtocol(self))

BBSVerifyProofContribution(self, challenge, proof) ==
    IF BBSProofMatches(proof)
    THEN Outcome(self,
                 PoKOfSignatureG1ProofVerify(proof.p,
                     self.statement.revealed_messages, challenge,
                     self.statement.params),
                 None, <<>>, 0, {"verify"})
    ELSE Fail(self, ProofIncompatibleWithProtocol(self.statement))

(***************************************************************************)
(* Collaborators vb_accumulator::proofs::MembershipProofProtocol and       *)
(* NonMembershipProofProtocol, by their contract: init cannot fail and     *)
(* uses the given blinding or draws one, gen_proof cannot fail, verify is  *)
(* a function of the proof, the accumulator value and the challenge.  A    *)
(* witness is the accumulator value it is a (non-)membership witness for.  *)
(***************************************************************************)
AccumulatorProtocolInit(rng, element, blinding, witness) ==
    [element |-> element, witness |-> witness,
     r |-> IF IsSome(blinding) THEN Unwrap(blinding) ELSE rng[1]]

AccumulatorProtocolDraws(blinding) == IF IsSome(blinding) THEN 0 ELSE 1

AccumulatorProtocolGenProof(protocol, challenge) ==
    [t |-> protocol.r, s |-> FAdd(protocol.r, FMul(challenge, protocol.element)),
     witness |-> protocol.witness, challenge |-> challenge]

AccumulatorProtocolChallengeContribution(protocol, accumulator_value) ==
    <<accumulator_value, protocol.r>>

AccumulatorProofVerify(p, accumulator_value, challenge) ==
    IF p.witness = accumulator_value /\ p.challenge = challenge
    THEN Ok
    ELSE Err(CollaboratorError("VBAccumulatorError"))

(***************************************************************************)
(* AccumulatorMembershipSubProtocol (sub_protocols.rs).                    *)
(***************************************************************************)
AccumulatorMembershipSubProtocolNew(id, statement) ==
    [kind |-> "AccumulatorMembership", id |-> id, statement |-> statement,
     protocol |-> None]

\* Mutant: init without its guard.
MemInitGuard_Never(self) == FALSE

MemInitGuard(self) == IsSome(self.protocol)

MemInit(self, rng, blinding, witness) ==
    IF MemInitGuard(self)
    THEN Fail(self, SubProtocolAlreadyInitialized(self.id))
    ELSE Outcome([self EXCEPT !.protocol =
                     Some(AccumulatorProtocolInit(rng, witness.element,
                                                  blinding, witness.witness))],
                 Ok, None, <<>>, AccumulatorProtocolDraws(blinding), {"init"})

MemChallengeGuard(self) == IsNone(self.protocol)

\* Mutant: the early return carries the error of gen_proof_contribution.
MemChallengeContribution_WrongError(self) ==
    IF MemChallengeGuard(self)
    THEN Fail(self, SubProtocolNotReadyToGenerateProofFmt(self.statement))
    ELSE Outcome(self, Ok, None,
                 AccumulatorProtocolChallengeContribution(Unwrap(self.protocol),
                     self.statement.accumulator_value),
                 0, {"challenge_contribution"})

MemChallengeContribution(self) ==
    IF MemChallengeGuard(self)
    THEN Fail(self, SubProtocolNotReadyToGenerateChallenge(self.id))
    ELSE Outcome(self, Ok, None,
                 AccumulatorProtocolChallengeContribution(Unwrap(self.protocol),
                     self.statement.accumulator_value),
                 0, {"challenge_contribution"})

MemGenProofGuard(self) == IsNone(self.protocol)

MemGenProofContribution(self, challenge) ==
    IF MemGenProofGuard(self)
    THEN Fail(self, SubProtocolNotReadyToGenerateProofFmt(self.statement))
    ELSE Outcome(TakeProtocol(self), Ok,
                 Some(StatementProof("AccumulatorMembership",
                     AccumulatorProtocolGenProof(Unwrap(self.protocol), challenge))),
                 <<>>, 0, {"gen_proof"})

\* Mutant: the arm also takes the sibling accumulator variant.
MemProofMatches_AnyAccumulator(proof) ==
    proof.tag \in {"AccumulatorMembership", "AccumulatorNonMembership"}

MemProofMatches(proof) == proof.tag = "AccumulatorMembership"

\* Mutant: verify consumes the live protocol, as gen_proof_contribution does.
MemVerifyProofContribution_TakesProtocol(self, challenge, proof) ==
    IF MemProofMatches(proof)
    THEN Outcome(TakeProtocol(self),
                 AccumulatorProofVerify(proof.p, self.statement.accumulator_value,
                                        challenge),
                 None, <<>>, 0, {"verify"})
    ELSE Fail(self, ProofIncompatibleWithProtocol(self.statement))

MemVerifyProofContribution(self, challenge, proof) ==
    IF MemProofMatches(proof)
    THEN Outcome(self,
                 AccumulatorProofVerify(proof.p, self.statement.accumulator_value,
                                        challenge),
                 None, <<>>, 0, {"verify"})
    ELSE Fail(self, ProofIncompatibleWithProtocol(self.statement))

(***************************************************************************)
(* AccumulatorNonMembershipSubProtocol (sub_protocols.rs).                 *)
(***************************************************************************)
AccumulatorNonMembershipSubProtocolNew(id, statement) ==
    [kind |-> "AccumulatorNonMembership", id |-> id, statement |-> statement,
     protocol |-> None]

NonMemInitGuard(self) == IsSome(self.protocol)

NonMemInit(self, rng, blinding, witness) ==
    IF NonMemInitGuard(self)
    THEN Fail(self, SubProtocolAlreadyInitialized(self.id))
    ELSE Outcome([self EXCEPT !.protocol =
                     Some(AccumulatorProtocolInit(rng, witness.element,
                                                  blinding, witness.witness))],
                 Ok, None, <<>>, AccumulatorProtocolDraws(blinding), {"init"})

NonMemChallengeGuard(self) == IsNone(self.protocol)

NonMemChallengeContribution(self) ==
    IF NonMemChallengeGuard(self)
    THEN Fail(self, SubProtocolNotReadyToGenerateChallenge(self.id))
    ELSE Outcome(self, Ok, None,
                 AccumulatorProtocolChallengeContribution(Unwrap(self.protocol),
                     self.statement.accumulator_value),
                 0, {"challenge_contribution"})

NonMemGenProofGuard(self) == IsNone(self.protocol)

\* Mutant: the early return carries the error of challenge_contribution.
NonMemGenProofContribution_WrongError(self, challenge) ==
    IF NonMemGenProofGuard(self)
    THEN Fail(self, SubProtocolNotReadyToGenerateChallenge(self.id))
    ELSE Outcome(TakeProtocol(self), Ok,
                 Some(StatementProof("AccumulatorNonMembership",
                     AccumulatorProtocolGenProof(Unwrap(self.protocol), challenge))),
                 <<>>, 0, {"gen_proof"})

NonMemGenProofContribution(self, challenge) ==
    IF NonMemGenProofGuard(self)
    THEN Fail(self, SubProtocolNotReadyToGenerateProofFmt(self.statement))
    ELSE Outcome(TakeProtocol(self), Ok,
                 Some(StatementProof("AccumulatorNonMembership",
                     AccumulatorProtocolGenProof(Unwrap(self.protocol), challenge))),
                 <<>>, 0, {"gen_proof"})

NonMemProofMatches(proof) == proof.tag = "AccumulatorNonMembership"

NonMemVerifyProofContribution(self, challenge, proof) ==
    IF NonMemProofMatches(proof)
    THEN Outcome(self,
                 AccumulatorProofVerify(proof.p, self.statement.accumulator_value,
                                        challenge),
                 None, <<>>, 0, {"verify"})
    ELSE Fail(self, ProofIncompatibleWithProtocol(self.statement))

(***************************************************************************)
(* enum SubProtocol: dispatch on the variant.                              *)
(***************************************************************************)
SubProtocolKinds == {"PoKBBSSignatureG1", "AccumulatorMembership",
                     "AccumulatorNonMembership"}

SubProtocolChallengeContribution(self) ==
    CASE self.kind = "PoKBBSSignatureG1" -> BBSChallengeContribution(self)
      [] self.kind = "AccumulatorMembership" -> MemChallengeContribution(self)
      [] self.kind = "AccumulatorNonMembership" -> NonMemChallengeContribution(self)

SubProtocolGenProofContribution(self, challenge, sound) ==
    CASE self.kind = "PoKBBSSignatureG1" ->
             BBSGenProofContribution(self, challenge, sound)
      [] self.kind = "AccumulatorMembership" ->
             MemGenProofContribution(self, challenge)
      [] self.kind = "AccumulatorNonMembership" ->
             NonMemGenProofContribution(self, challenge)

SubProtocolVerifyProofContribution(self, challenge, proof) ==
    CASE self.kind = "PoKBBSSignatureG1" ->
             BBSVerifyProofContribution(self, challenge, proof)
      [] self.kind = "AccumulatorMembership" ->
             MemVerifyProofContribution(self, challenge, proof)
      [] self.kind = "AccumulatorNonMembership" ->
             NonMemVerifyProofContribution(self, challenge, proof)

(***************************************************************************)
(* The inputs of the calls.                                                *)
(***************************************************************************)
SeqsUpTo(S, n) == UNION {[1..k -> S] : k \in 0..n}

\* BTreeMap<usize, _>: a function on a finite set of 0-based indices.
PartialMaps(D, V) == UNION {[d -> V] : d \in SUBSET D}

\* Maps giving every index they hold the same value of V.
UniformMaps(D, V) == UNION {{[i \in d |-> v] : v \in V} : d \in SUBSET D}

\* The commitment keys of the two greatest lengths: the base of position i
\* has logarithm 1 + (i - 1) mod (FieldOrder - 1).
CommitmentKeys ==
    {[i \in 1..k |-> 1 + ((i - 1) % (FieldOrder - 1))] : k \in {MaxLen - 1, MaxLen}}

WitnessVectors == SeqsUpTo(Scalars \ {0}, MaxLen)

ResponseVectors == SeqsUpTo(Scalars \ {0}, MaxLen)

\* The blindings the caller supplies: 1 at any set of positions, or one
\* shared scalar at every position.
SchnorrBlindingMaps ==
    UniformMaps(0..(MaxLen - 1), {1})
    \cup {[i \in 0..(MaxLen - 1) |-> r] : r \in Scalars}

MsgIndices == 0..(MaxMsgs - 1)

\* The statement reveals message 1 at the indices it holds, the witness
\* hides message 2 at the indices it holds; one witness holds every slot
\* and an index past the last slot.
RevealedMessageMaps == UniformMaps(MsgIndices, {1})

UnrevealedMessageMaps ==
    UniformMaps(MsgIndices, {2}) \cup {[i \in 0..MaxMsgs |-> 2]}

Signatures == 0..1

BBSStatements ==
    [params : [max_message_count : {MaxMsgs}],
     revealed_messages : RevealedMessageMaps]

BBSWitnesses == [signature : Signatures, unrevealed_messages : UnrevealedMessageMaps]

BBSBlindingMaps == {[i \in d |-> 1] : d \in {{}, {0}, {0, MaxMsgs}}}

AccumulatorValues == 0..1

AccumulatorStatements == [accumulator_value : AccumulatorValues]

AccumulatorWitnesses == [element : Scalars, witness : AccumulatorValues]

OptionalBlindings == {None} \cup {Some(r) : r \in Scalars}

\* The proofs handed to verify_proof_contribution: the one the latest call
\* returned, and for every variant tag proofs made up by the caller.
ForgedPayloads(tag) ==
    CASE tag = "PedersenCommitment" ->
             {[t |-> t, response |-> r] : t \in Group, r \in ResponseVectors}
      [] tag = "PoKBBSSignatureG1" ->
             {[signature |-> g, messages |-> [i \in 1..MaxMsgs |-> 2],
               revealed_indices |-> {}, responses |-> <<>>, t |-> 0,
               challenge |-> 1] :
                  g \in Signatures}
      [] OTHER ->
             {[t |-> 0, s |-> 0, witness |-> w, challenge |-> 1] :
                  w \in AccumulatorValues}

\* Every payload of the variant `own`, one payload of every other variant.
ForgedProofs(own) ==
    {StatementProof(own, p) : p \in ForgedPayloads(own)}
    \cup {StatementProof(tag, CHOOSE p \in ForgedPayloads(tag) : TRUE) :
              tag \in Tags \ {own}}

OwnTag(self) == IF self.kind = "Schnorr" THEN "PedersenCommitment" ELSE self.kind

ProofInputs ==
    ForgedProofs(OwnTag(sp))
    \cup (IF IsSome(last.proof) THEN {Unwrap(last.proof)} ELSE {})

(***************************************************************************)
(* The state machine.  `ghost` counts what the instance cannot see of its  *)
(* own past: the proofs returned from the current commitment (since the    *)
(* latest successful init), and whether a take() has emptied the slot      *)
(* since then.                                                             *)
(***************************************************************************)
NoCall ==
    [op |-> "new", shape |-> None, result |-> Ok, proof |-> None,
     wrote |-> <<>>, draws |-> 0, collab |-> {}]

\* No scenario of the orchestrator is running.
NoRun == [phase |-> "none"]

Init ==
    /\ sp \in {SchnorrProtocolNew(id, k, c) :
                   id \in Ids, k \in CommitmentKeys, c \in Group}
              \cup {PoKBBSSigG1SubProtocolNew(id, st) :
                        id \in Ids, st \in BBSStatements}
              \cup {AccumulatorMembershipSubProtocolNew(id, st) :
                        id \in Ids, st \in AccumulatorStatements}
              \cup {AccumulatorNonMembershipSubProtocolNew(id, st) :
                        id \in Ids, st \in AccumulatorStatements}
    /\ last = NoCall
    /\ ghost = [proofs |-> 0, consumed |-> FALSE]
    /\ run = NoRun

HasLiveState(self) ==
    IF self.kind = "Schnorr" THEN IsSome(self.commitment_to_randomness)
    ELSE IsSome(self.protocol)

\* The call `op`, with arguments of shape `shape`, happens with outcome `o`.
Apply(op, shape, o) ==
    /\ sp' = o.self
    /\ run' = run
    /\ last' = [op |-> op, shape |-> shape, result |-> o.result,
                proof |-> o.proof, wrote |-> o.wrote, draws |-> o.draws,
                collab |-> o.collab]
    /\ ghost' =
         IF op = "init" /\ o.result.ok
         THEN [proofs |-> 0, consumed |-> FALSE]
         ELSE IF op = "gen_proof_contribution"
              THEN [proofs |-> IF IsSome(o.proof) /\ ghost.proofs < 2
                               THEN ghost.proofs + 1 ELSE ghost.proofs,
                    consumed |-> ghost.consumed
                                 \/ (HasLiveState(sp) /\ ~HasLiveState(o.self))]
              ELSE ghost

SchnorrInitCall ==
    /\ sp.kind = "Schnorr"
    /\ \E rng \in RngStreams, blindings \in SchnorrBlindingMaps,
          witnesses \in WitnessVectors :
           Apply("init", None, SchnorrInit(sp, rng, blindings, witnesses))

BBSInitCall ==
    /\ sp.kind = "PoKBBSSignatureG1"
    /\ \E rng \in RngStreams, blindings \in BBSBlindingMaps,
          witness \in BBSWitnesses, sound \in BOOLEAN :
           Apply("init", Some(DOMAIN witness.unrevealed_messages),
                 BBSInit(sp, rng, blindings, witness, sound))

MemInitCall ==
    /\ sp.kind = "AccumulatorMembership"
    /\ \E rng \in RngStreams, blinding \in OptionalBlindings,
          witness \in AccumulatorWitnesses :
           Apply("init", None, MemInit(sp, rng, blinding, witness))

NonMemInitCall ==
    /\ sp.kind = "AccumulatorNonMembership"
    /\ \E rng \in RngStreams, blinding \in OptionalBlindings,
          witness \in AccumulatorWitnesses :
           Apply("init", None, NonMemInit(sp, rng, blinding, witness))

SchnorrChallengeCall ==
    /\ sp.kind = "Schnorr"
    /\ Apply("challenge_contribution", None, SchnorrChallengeContribution(sp))

SubProtocolChallengeCall ==
    /\ sp.kind \in SubProtocolKinds
    /\ Apply("challenge_contribution", None, SubProtocolChallengeContribution(sp))

SchnorrGenProofCall ==
    /\ sp.kind = "Schnorr"
    /\ \E challenge \in Scalars :
           Apply("gen_proof_contribution", Some(challenge),
                 SchnorrGenProofContribution(sp, challenge))

SubProtocolGenProofCall ==
    /\ sp.kind \in SubProtocolKinds
    /\ \E challenge \in Scalars, sound \in BOOLEAN :
           Apply("gen_proof_contribution", Some(challenge),
                 SubProtocolGenProofContribution(sp, challenge, sound))

SchnorrVerifyCall ==
    /\ sp.kind = "Schnorr"
    /\ \E challenge \in Scalars, proof \in ProofInputs :
           Apply("verify_proof_contribution", Some(proof.tag),
                 SchnorrVerifyProofContribution(sp, challenge, proof))

SubProtocolVerifyCall ==
    /\ sp.kind \in SubProtocolKinds
    /\ \E challenge \in Scalars, proof \in ProofInputs :
           Apply("verify_proof_contribution", Some(proof.tag),
                 SubProtocolVerifyProofContribution(sp, challenge, proof))

Next ==
    \/ SchnorrInitCall
    \/ BBSInitCall
    \/ MemInitCall
    \/ NonMemInitCall
    \/ SchnorrChallengeCall
    \/ SubProtocolChallengeCall
    \/ SchnorrGenProofCall
    \/ SubProtocolGenProofCall
    \/ SchnorrVerifyCall
    \/ SubProtocolVerifyCall

Spec == Init /\ [][Next]_vars

(***************************************************************************)
(* should_use_cls and the bound-check sub-protocol, by their contract: the *)
(* width max - min is compared with one fixed threshold; the sub-protocol  *)
(* commits to its value under the blinding it is given or draws one, its   *)
(* proof is tagged with the inner strategy and carries the response        *)
(* blinding + challenge * value, and verification rejects a proof whose    *)
(* tag is not the one the statement's (min, max) select.  The threshold is *)
(* a configuration constant: `run.threshold` holds the one in effect.      *)
(***************************************************************************)
\* Fr::from(u64).
FrFrom(v) == v % FieldOrder

ClsThresholds == {2^20, 2^21}

\* Mutant: a width equal to the threshold still selects CLS.
ShouldUseCls_AtThreshold(min, max) == (max - min) <= run.threshold

ShouldUseCls(min, max) == (max - min) < run.threshold

\* Mutant: CCS below the threshold, CLS from it on.
BoundCheckInnerStrategy_CcsBelow(min, max) ==
    IF ShouldUseCls(min, max) THEN "CCS" ELSE "CLS"

BoundCheckInnerStrategy(min, max) ==
    IF ShouldUseCls(min, max) THEN "CLS" ELSE "CCS"

BoundCheckSmcWithKVProtocolNew(id, min, max) ==
    [kind |-> "BoundCheckSmcWithKV", id |-> id, min |-> min, max |-> max,
     protocol |-> None]

BoundCheckInit(self, rng, blinding, witness) ==
    IF IsSome(self.protocol)
    THEN Fail(self, SubProtocolAlreadyInitialized(self.id))
    ELSE Outcome([self EXCEPT !.protocol =
                      Some([inner |-> BoundCheckInnerStrategy(self.min, self.max),
                            value |-> witness,
                            r |-> IF IsSome(blinding)
                                  THEN Unwrap(blinding) ELSE RngAt(rng, 1)])],
                 Ok, None, <<>>, IF IsSome(blinding) THEN 0 ELSE 1, {"init"})

BoundCheckChallengeContribution(self) ==
    IF IsNone(self.protocol)
    THEN Fail(self, SubProtocolNotReadyToGenerateChallenge(self.id))
    ELSE Outcome(self, Ok, None,
                 <<self.min, self.max, Unwrap(self.protocol).r>>,
                 0, {"challenge_contribution"})

\* Mutant: every proof is tagged CCS.
BoundCheckGenProofContribution_AlwaysCcs(self, challenge) ==
    IF IsNone(self.protocol)
    THEN Fail(self, SubProtocolNotReadyToGenerateProofId(self.id))
    ELSE LET protocol == Unwrap(self.protocol)
         IN Outcome(TakeProtocol(self), Ok,
                    Some(StatementProof("BoundCheckSmcWithKV",
                             [inner |-> "CCS", t |-> protocol.r,
                              s |-> FAdd(protocol.r,
                                         FMul(challenge, protocol.value))])),
                    <<>>, 0, {"gen_proof"})

BoundCheckGenProofContribution(self, challenge) ==
    IF IsNone(self.protocol)
    THEN Fail(self, SubProtocolNotReadyToGenerateProofId(self.id))
    ELSE LET protocol == Unwrap(self.protocol)
         IN Outcome(TakeProtocol(self), Ok,
                    Some(StatementProof("BoundCheckSmcWithKV",
                             [inner |-> protocol.inner, t |-> protocol.r,
                              s |-> FAdd(protocol.r,
                                         FMul(challenge, protocol.value))])),
                    <<>>, 0, {"gen_proof"})

BoundCheckProofChallengeContribution(self, proof) ==
    <<self.min, self.max, proof.p.t>>

BoundCheckVerifyProofContribution(self, challenge, proof) ==
    IF /\ proof.tag = "BoundCheckSmcWithKV"
       /\ proof.p.inner = BoundCheckInnerStrategy(self.min, self.max)
    THEN Outcome(self, Ok, None, <<>>, 0, {"verify"})
    ELSE Fail(self, ProofIncompatibleWithProtocol(
                        [min |-> self.min, max |-> self.max]))

(***************************************************************************)
(* The composite-proof orchestrator (Proof::new, Proof::verify), by its    *)
(* contract: the witness references an equality constraint links share one *)
(* blinding drawn before any sub-protocol is initialized; the challenge is *)
(* the hash of the sub-protocols' contributions in id order; verification  *)
(* rebuilds the transcript from the statements and the proofs, recomputes  *)
(* the challenge, verifies every statement proof in id order and then      *)
(* compares the responses of the linked witnesses.  The hash is a random   *)
(* oracle: `hash` is the one point of it the prover has fixed.             *)
(***************************************************************************)
\* The blindings of statement s: r at every witness index the class links.
SharedBlindings(class, s, r) ==
    [i \in {ref[2] : ref \in {x \in class : x[1] = s}} |-> r]

WitnessEqualityViolated == Error("WitnessEqualityViolated", <<>>, None)

\* The response of the witness `ref` = <<statement id, witness index>>.
WitnessResponse(proof, ref) ==
    LET part == proof[ref[1] + 1]
    IN IF part.tag = "PoKBBSSignatureG1"
       THEN part.p.responses[ref[2]]
       ELSE part.p.s

\* Mutant: the responses of linked witnesses are not compared.
ResponsesEqual_Unchecked(proof, class) == TRUE

ResponsesEqual(proof, class) ==
    \A a, b \in class : WitnessResponse(proof, a) = WitnessResponse(proof, b)

PoKOfSignatureG1ProofChallengeContribution(p, revealed_messages, params) ==
    <<params.max_message_count, p.t>>
        \o [i \in 1..Len(p.messages) |->
               IF (i - 1) \in DOMAIN revealed_messages
               THEN revealed_messages[i - 1] ELSE FieldOrder]

\* The verifier's sub-protocols are new: they hold statements only.
ProofVerify(sig_statement, min, max, class, proof, hash) ==
    LET v0 == PoKBBSSigG1SubProtocolNew(0, sig_statement)
        v1 == BoundCheckSmcWithKVProtocolNew(1, min, max)
        transcript ==
            PoKOfSignatureG1ProofChallengeContribution(proof[1].p,
                sig_statement.revealed_messages, sig_statement.params)
            \o BoundCheckProofChallengeContribution(v1, proof[2])
        challenge == IF transcript = hash.transcript
                     THEN hash.challenge
                     ELSE FAdd(hash.challenge, 1)
        r0 == BBSVerifyProofContribution(v0, challenge, proof[1]).result
        r1 == BoundCheckVerifyProofContribution(v1, challenge, proof[2]).result
    IN [parts |-> <<r0, r1>>,
        res |-> IF ~r0.ok THEN r0
                ELSE IF ~r1.ok THEN r1
                ELSE IF ~ResponsesEqual(proof, class)
                     THEN Err(WitnessEqualityViolated)
                     ELSE Ok]

(***************************************************************************)
(* fn check of tests/bound_check_smc_with_kv.rs: statement 0 is a          *)
(* signature over msgs with no message revealed, statement 1 a bound check *)
(* of [min, max), and message msg_idx of statement 0 is linked to the      *)
(* value of statement 1.  msgs[i] = min + 1 + i; the bound-check value     *)
(* `msg` is one of the FieldOrder values from min + 1 on, which Fr::from   *)
(* keeps distinct (min + 10 would fold onto min + 1).                      *)
(***************************************************************************)
MsgCount == MaxMsgs

CheckRanges == {<<100, 200>>, <<100, 100 + 2^21>>}

CheckMsgs(min) == [i \in 0..(MsgCount - 1) |-> FrFrom(min + 1 + i)]

CheckBoundValues(min) == {min + 1 + d : d \in 0..(FieldOrder - 1)}

CheckSigStatement ==
    [params |-> [max_message_count |-> MsgCount], revealed_messages |-> <<>>]

CheckSigWitness(min) == [signature |-> 1, unrevealed_messages |-> CheckMsgs(min)]

EqualWitnesses(msg_idx) == {<<0, msg_idx>>, <<1, 0>>}

\* proof_spec.validate(): every witness reference resolves.
ProofSpecValidate(class) ==
    \A ref \in class : \/ ref[1] = 0 /\ ref[2] \in 0..(MsgCount - 1)
                       \/ ref[1] = 1 /\ ref[2] = 0

CheckInit ==
    /\ sp = PoKBBSSigG1SubProtocolNew(0, CheckSigStatement)
    /\ last = NoCall
    /\ ghost = [proofs |-> 0, consumed |-> FALSE]
    /\ run \in UNION {{[phase |-> "start", threshold |-> t,
                        min |-> range[1], max |-> range[2],
                        msg_idx |-> i, msg |-> v, rng |-> rng,
                        subs |-> <<>>, hash |-> None, proof |-> <<>>,
                        prove |-> None, parts |-> <<>>, res |-> None] :
                           t \in ClsThresholds, i \in MsgIndices,
                           v \in CheckBoundValues(range[1]),
                           rng \in RngStreams} :
                      range \in CheckRanges}

\* Proof::new, steps 1 to 3: the shared blinding is the first draw.
ProofNewInit ==
    /\ run.phase = "start"
    /\ ProofSpecValidate(EqualWitnesses(run.msg_idx))
    /\ LET class == EqualWitnesses(run.msg_idx)
           r == RngAt(run.rng, 1)
           o0 == BBSInit(PoKBBSSigG1SubProtocolNew(0, CheckSigStatement),
                         Tail(run.rng), SharedBlindings(class, 0, r),
                         CheckSigWitness(run.min), TRUE)
           b1 == SharedBlindings(class, 1, r)
           o1 == BoundCheckInit(
                     BoundCheckSmcWithKVProtocolNew(1, run.min, run.max),
                     Tail(run.rng),
                     IF 0 \in DOMAIN b1 THEN Some(b1[0]) ELSE None,
                     FrFrom(run.msg))
       IN run' = IF o0.result.ok /\ o1.result.ok
                 THEN [run EXCEPT !.phase = "initialized",
                                  !.subs = <<o0.self, o1.self>>]
                 ELSE [run EXCEPT !.phase = "done",
                                  !.prove = Some(IF o0.result.ok
                                                 THEN o1.result ELSE o0.result)]
    /\ UNCHANGED <<sp, last, ghost>>

\* Proof::new, step 4.
ProofNewChallenge ==
    /\ run.phase = "initialized"
    /\ LET o0 == BBSChallengeContribution(run.subs[1])
           o1 == BoundCheckChallengeContribution(run.subs[2])
       IN IF o0.result.ok /\ o1.result.ok
          THEN \E challenge \in Scalars :
                   run' = [run EXCEPT !.phase = "challenged",
                                      !.hash = Some([transcript |-> o0.wrote \o o1.wrote,
                                                     challenge |-> challenge])]
          ELSE run' = [run EXCEPT !.phase = "done",
                                  !.prove = Some(IF o0.result.ok
                                                 THEN o1.result ELSE o0.result)]
    /\ UNCHANGED <<sp, last, ghost>>

\* Proof::new, steps 5 and 6.
ProofNewGenProofs ==
    /\ run.phase = "challenged"
    /\ LET challenge == Unwrap(run.hash).challenge
           o0 == BBSGenProofContribution(run.subs[1], challenge, TRUE)
           o1 == BoundCheckGenProofContribution(run.subs[2], challenge)
       IN run' = IF o0.result.ok /\ o1.result.ok
                 THEN [run EXCEPT !.phase = "proved",
                                  !.subs = <<o0.self, o1.self>>,
                                  !.proof = <<Unwrap(o0.proof), Unwrap(o1.proof)>>,
                                  !.prove = Some(Ok)]
                 ELSE [run EXCEPT !.phase = "done",
                                  !.subs = <<o0.self, o1.self>>,
                                  !.prove = Some(IF o0.result.ok
                                                 THEN o1.result ELSE o0.result)]
    /\ UNCHANGED <<sp, last, ghost>>

\* proof.verify against the verifier's ProofSpec.
ProofVerifyCall ==
    /\ run.phase = "proved"
    /\ ProofSpecValidate(EqualWitnesses(run.msg_idx))
    /\ LET v == ProofVerify(CheckSigStatement, run.min, run.max,
                            EqualWitnesses(run.msg_idx), run.proof,
                            Unwrap(run.hash))
       IN run' = [run EXCEPT !.phase = "done", !.parts = v.parts,
                             !.res = Some(v.res)]
    /\ UNCHANGED <<sp, last, ghost>>

CheckNext ==
    \/ ProofNewInit
    \/ ProofNewChallenge
    \/ ProofNewGenProofs
    \/ ProofVerifyCall

CheckSpec == CheckInit /\ [][CheckNext]_vars

(***************************************************************************)
(* Two accumulator statements composed without an equality constraint,     *)
(* their phases run in any order.  The sub-protocols share the one rng the *)
(* caller hands to init (`rng: &mut R`): `cursor` counts the scalars drawn *)
(* from it so far.  Each challenge_contribution writes to a buffer of its  *)
(* own; the transcript is the buffers concatenated in ascending statement  *)
(* id, hashed once every sub-protocol has contributed.  `inits` and        *)
(* `calls` remember the order the init and challenge_contribution phases   *)
(* ran in.                                                                 *)
(***************************************************************************)
ComposeIds == {0, 1}

ComposeNew(id, accumulator_value) ==
    IF id = 0
    THEN AccumulatorMembershipSubProtocolNew(0,
             [accumulator_value |-> accumulator_value])
    ELSE AccumulatorNonMembershipSubProtocolNew(1,
             [accumulator_value |-> accumulator_value])

\* The witness of statement id is valid for its accumulator.
ComposeWitness(id, accumulator_value) ==
    [element |-> 1 + id, witness |-> accumulator_value]

\* The rng after `cursor` scalars have been drawn from it.
RngFrom(rng, cursor) == [i \in 1..Len(rng) |-> RngAt(rng, cursor + i)]

SubProtocolInit(self, rng, blinding, witness) ==
    IF self.kind = "AccumulatorMembership"
    THEN MemInit(self, rng, blinding, witness)
    ELSE NonMemInit(self, rng, blinding, witness)

\* Mutant: the buffers are concatenated in descending statement id.
TranscriptInIdOrder_Descending(buffers) == buffers[2] \o buffers[1]

TranscriptInIdOrder(buffers) == buffers[1] \o buffers[2]

ComposeInit ==
    /\ sp = AccumulatorMembershipSubProtocolNew(0, [accumulator_value |-> 0])
    /\ last = NoCall
    /\ ghost = [proofs |-> 0, consumed |-> FALSE]
    /\ run \in {[phase |-> "composing", rng |-> rng, cursor |-> 0,
                 blindings |-> <<b0, b1>>,
                 subs |-> <<ComposeNew(0, a0), ComposeNew(1, a1)>>,
                 inits |-> <<>>, calls |-> <<>>,
                 buffers |-> <<None, None>>, hash |-> None,
                 proofs |-> <<None, None>>] :
                    rng \in RngStreams,
                    b0 \in OptionalBlindings, b1 \in OptionalBlindings,
                    a0 \in AccumulatorValues, a1 \in AccumulatorValues}

InSeq(s, x) == \E k \in DOMAIN s : s[k] = x

SubProtocolInitStep(id) ==
    /\ run.phase = "composing"
    /\ ~InSeq(run.inits, id)
    /\ LET self == run.subs[id + 1]
           o == SubProtocolInit(self, RngFrom(run.rng, run.cursor),
                                run.blindings[id + 1],
                                ComposeWitness(id, self.statement.accumulator_value))
       IN run' = [run EXCEPT !.subs[id + 1] = o.self,
                             !.cursor = run.cursor + o.draws,
                             !.inits = Append(run.inits, id)]
    /\ UNCHANGED <<sp, last, ghost>>

SubProtocolContributionStep(id) ==
    /\ run.phase = "composing"
    /\ InSeq(run.inits, id)
    /\ ~InSeq(run.calls, id)
    /\ LET o == SubProtocolChallengeContribution(run.subs[id + 1])
       IN run' = [run EXCEPT !.buffers[id + 1] =
                                 IF o.result.ok THEN Some(o.wrote) ELSE None,
                             !.calls = Append(run.calls, id)]
    /\ UNCHANGED <<sp, last, ghost>>

ChallengeStep ==
    /\ run.phase = "composing"
    /\ \A id \in ComposeIds : IsSome(run.buffers[id + 1])
    /\ \E challenge \in Scalars :
           run' = [run EXCEPT !.phase = "challenged",
                              !.hash = Some([transcript |->
                                                 TranscriptInIdOrder(
                                                     [k \in 1..2 |-> Unwrap(run.buffers[k])]),
                                             challenge |-> challenge])]
    /\ UNCHANGED <<sp, last, ghost>>

SubProtocolGenProofStep(id) ==
    /\ run.phase = "challenged"
    /\ IsNone(run.proofs[id + 1])
    /\ LET o == SubProtocolGenProofContribution(run.subs[id + 1],
                    Unwrap(run.hash).challenge, TRUE)
       IN /\ o.result.ok
          /\ run' = [run EXCEPT !.subs[id + 1] = o.self,
                                !.proofs[id + 1] = o.proof]
    /\ UNCHANGED <<sp, last, ghost>>

ComposeNext ==
    \/ \E id \in ComposeIds : SubProtocolInitStep(id)
    \/ \E id \in ComposeIds : SubProtocolContributionStep(id)
    \/ ChallengeStep
    \/ \E id \in ComposeIds : SubProtocolGenProofStep(id)

ComposeSpec == ComposeInit /\ [][ComposeNext]_vars

(***************************************************************************)
(* utils/src/iter.rs: pluck_missed and skip_up_to_n, each a function of    *)
(* its arguments.  The iterators are sequences; Itertools::merge_join_by   *)
(* walks both inputs at once and yields, for the two items in front, the   *)
(* left one when it compares less, both when they compare equal and the    *)
(* right one when the left compares greater, then what is left of either   *)
(* input.  The rng of skip_up_to_n is the sequence of the outcomes of      *)
(* gen_bool(0.5), one for each time it is consulted.                       *)
(***************************************************************************)
Items == 1..2

\* iter.into_iter().enumerate(): pairs <<position, item>>, positions from 0.
Enumerate(iter) == [k \in 1..Len(iter) |-> <<k - 1, iter[k]>>]

RECURSIVE MergeJoinBy(_, _)
MergeJoinBy(left, right) ==
    IF left = <<>> /\ right = <<>>
    THEN <<>>
    ELSE IF right = <<>>
         THEN <<[either |-> "Left", left |-> Head(left)]>>
                  \o MergeJoinBy(Tail(left), right)
         ELSE IF left = <<>>
              THEN <<[either |-> "Right", right |-> Head(right)]>>
                       \o MergeJoinBy(left, Tail(right))
              ELSE IF Head(left)[1] < Head(right)
                   THEN <<[either |-> "Left", left |-> Head(left)]>>
                            \o MergeJoinBy(Tail(left), right)
                   ELSE IF Head(left)[1] = Head(right)
                        THEN <<[either |-> "Both", left |-> Head(left),
                                right |-> Head(right)]>>
                                 \o MergeJoinBy(Tail(left), Tail(right))
                        ELSE <<[either |-> "Right", right |-> Head(right)]>>
                                 \o MergeJoinBy(left, Tail(right))

RECURSIVE FilterMapLeft(_)
FilterMapLeft(joined) ==
    IF joined = <<>>
    THEN <<>>
    ELSE IF Head(joined).either = "Left"
         THEN <<Head(joined).left[2]>> \o FilterMapLeft(Tail(joined))
         ELSE FilterMapLeft(Tail(joined))

\* Mutant: the item of a pair that compares equal is kept too.
RECURSIVE FilterMapLeft_KeepsBoth(_)
FilterMapLeft_KeepsBoth(joined) ==
    IF joined = <<>>
    THEN <<>>
    ELSE IF Head(joined).either \in {"Left", "Both"}
         THEN <<Head(joined).left[2]>> \o FilterMapLeft_KeepsBoth(Tail(joined))
         ELSE FilterMapLeft_KeepsBoth(Tail(joined))

\* Mutant: the items the indices name are kept as well.
PluckMissed_KeepsBoth(indices, iter) ==
    FilterMapLeft_KeepsBoth(MergeJoinBy(Enumerate(iter), indices))

PluckMissed(indices, iter) == FilterMapLeft(MergeJoinBy(Enumerate(iter), indices))

\* Mutant: a skip does not use up the allowance.
RECURSIVE SkipUpToN_NoCount(_, _, _)
SkipUpToN_NoCount(rng, iter, allowed_to_skip) ==
    IF iter = <<>>
    THEN <<>>
    ELSE IF allowed_to_skip = 0
         THEN <<Head(iter)>> \o SkipUpToN_NoCount(rng, Tail(iter), allowed_to_skip)
         ELSE IF Head(rng)
              THEN <<Head(iter)>>
                       \o SkipUpToN_NoCount(Tail(rng), Tail(iter), allowed_to_skip)
              ELSE SkipUpToN_NoCount(Tail(rng), Tail(iter), allowed_to_skip)

\* filter: the rng is consulted only while allowed_to_skip is not 0.
RECURSIVE SkipUpToN(_, _, _)
SkipUpToN(rng, iter, allowed_to_skip) ==
    IF iter = <<>>
    THEN <<>>
    ELSE IF allowed_to_skip = 0
         THEN <<Head(iter)>> \o SkipUpToN(rng, Tail(iter), allowed_to_skip)
         ELSE IF Head(rng)
              THEN <<Head(iter)>>
                       \o SkipUpToN(Tail(rng), Tail(iter), allowed_to_skip)
              ELSE SkipUpToN(Tail(rng), Tail(iter), allowed_to_skip - 1)

ItemSeqs == SeqsUpTo(Items, MaxItems)

IndexSeqs == SeqsUpTo(0..MaxItems, MaxItems)

GenBoolOutcomes == [1..MaxItems -> BOOLEAN]

IterInit ==
    /\ sp = AccumulatorMembershipSubProtocolNew(0, [accumulator_value |-> 0])
    /\ last = NoCall
    /\ ghost = [proofs |-> 0, consumed |-> FALSE]
    /\ run \in {[phase |-> "pluck_missed", indices |-> indices, iter |-> iter,
                 out |-> None] :
                    indices \in IndexSeqs, iter \in ItemSeqs}
               \cup {[phase |-> "skip_up_to_n", rng |-> rng, iter |-> iter,
                      n |-> n, out |-> None] :
                         rng \in GenBoolOutcomes, iter \in ItemSeqs,
                         n \in 0..MaxItems}

PluckMissedCall ==
    /\ run.phase = "pluck_missed"
    /\ IsNone(run.out)
    /\ run' = [run EXCEPT !.out = Some(PluckMissed(run.indices, run.iter))]
    /\ UNCHANGED <<sp, last, ghost>>

SkipUpToNCall ==
    /\ run.phase = "skip_up_to_n"
    /\ IsNone(run.out)
    /\ run' = [run EXCEPT !.out = Some(SkipUpToN(run.rng, run.iter, run.n))]
    /\ UNCHANGED <<sp, last, ghost>>

IterNext ==
    \/ PluckMissedCall
    \/ SkipUpToNCall

IterSpec == IterInit /\ [][IterNext]_vars

(***************************************************************************)
(* init of SchnorrProtocol and of PoKBBSSigG1SubProtocol as functions of   *)
(* the instance and the arguments, which `run` keeps next to the outcome.  *)
(* The blindings and the messages take every value at every index, the     *)
(* index one past the last slot included.                                  *)
(***************************************************************************)
AnyBlindingMaps == PartialMaps(0..MaxLen, Scalars)

\* New instances, and one that an earlier init has committed.
SchnorrInstances ==
    LET new == {SchnorrProtocolNew(0, k, 0) : k \in CommitmentKeys}
    IN new \cup {SchnorrInit(self, CHOOSE rng \in RngStreams : TRUE, <<>>,
                             [i \in 1..MaxLen |-> 1]).self : self \in new}

AnyRevealedMessageMaps == PartialMaps(MsgIndices, {0, 1})

AnyUnrevealedMessageMaps == PartialMaps(0..MaxMsgs, {1, 2})

\* New instances, and one that an earlier init has initialized.
BBSInstances ==
    LET new == {PoKBBSSigG1SubProtocolNew(0,
                    [params |-> [max_message_count |-> MaxMsgs],
                     revealed_messages |-> revealed]) :
                        revealed \in AnyRevealedMessageMaps}
    IN new \cup {BBSInit(self, CHOOSE rng \in RngStreams : TRUE, <<>>,
                         [signature |-> 1,
                          unrevealed_messages |-> [i \in MsgIndices |-> 0]],
                         TRUE).self : self \in new}

InitArgsInit ==
    /\ sp = AccumulatorMembershipSubProtocolNew(0, [accumulator_value |-> 0])
    /\ last = NoCall
    /\ ghost = [proofs |-> 0, consumed |-> FALSE]
    /\ run \in {[phase |-> "SchnorrProtocol::init", self |-> self, rng |-> rng,
                 blindings |-> blindings, witnesses |-> witnesses,
                 out |-> None] :
                    self \in SchnorrInstances, rng \in RngStreams,
                    blindings \in AnyBlindingMaps,
                    witnesses \in WitnessVectors}
               \cup {[phase |-> "PoKBBSSigG1SubProtocol::init", self |-> self,
                      rng |-> rng, blindings |-> blindings,
                      witness |-> [signature |-> 1,
                                   unrevealed_messages |-> unrevealed],
                      sound |-> sound, out |-> None] :
                         self \in BBSInstances, rng \in RngStreams,
                         blindings \in BBSBlindingMaps,
                         unrevealed \in AnyUnrevealedMessageMaps,
                         sound \in BOOLEAN}

SchnorrInitApplied ==
    /\ run.phase = "SchnorrProtocol::init"
    /\ IsNone(run.out)
    /\ run' = [run EXCEPT !.out = Some(SchnorrInit(run.self, run.rng,
                                          run.blindings, run.witnesses))]
    /\ UNCHANGED <<sp, last, ghost>>

BBSInitApplied ==
    /\ run.phase = "PoKBBSSigG1SubProtocol::init"
    /\ IsNone(run.out)
    /\ run' = [run EXCEPT !.out = Some(BBSInit(run.self, run.rng,
                                          run.blindings, run.witness,
                                          run.sound))]
    /\ UNCHANGED <<sp, last, ghost>>

InitArgsNext ==
    \/ SchnorrInitApplied
    \/ BBSInitApplied

InitArgsSpec == InitArgsInit /\ [][InitArgsNext]_vars

(***************************************************************************)
(* Properties.                                                             *)
(***************************************************************************)
ErrName(result) == IF result.ok THEN "" ELSE Unwrap(result.err).name

IsInitCall == last'.op = "init"

IsChallengeCall == last'.op = "challenge_contribution"

IsGenProofCall == last'.op = "gen_proof_contribution"

IsVerifyCall == last'.op = "verify_proof_contribution"

\* C1: single use, for every kind of sub-protocol.  Once a
\* gen_proof_contribution has taken the committed state of an instance, a
\* further gen_proof_contribution with no successful init in between fails
\* with SubProtocolNotReadyToGenerateProof, returns no proof and leaves the
\* instance as it is, whatever the two challenges; and no commitment to
\* randomness ever yields more than one proof.
C1_SingleUse ==
    /\ [](ghost.proofs <= 1)
    /\ [][(ghost.consumed /\ IsGenProofCall) =>
             /\ ErrName(last'.result) = "SubProtocolNotReadyToGenerateProof"
             /\ IsNone(last'.proof)
             /\ sp' = sp
             /\ ghost' = ghost]_vars

\* A second gen_proof_contribution was refused after the first returned a
\* proof.
C1_Witness ==
    /\ ghost.consumed
    /\ ghost.proofs = 1
    /\ last.op = "gen_proof_contribution"
    /\ ErrName(last.result) = "SubProtocolNotReadyToGenerateProof"
    /\ IsNone(last.proof)

\* C2: SchnorrProtocol::init on an instance holding a commitment to
\* randomness fails with SubProtocolAlreadyInitialized(id), draws nothing
\* from the rng and leaves commitment_to_randomness and witnesses (the whole
\* instance) as the first init set them.
C2_SchnorrReinitRefused ==
    [][(sp.kind = "Schnorr" /\ IsSome(sp.commitment_to_randomness) /\ IsInitCall) =>
          /\ last'.result = Err(SubProtocolAlreadyInitialized(sp.id))
          /\ last'.draws = 0
          /\ sp'.commitment_to_randomness = sp.commitment_to_randomness
          /\ sp'.witnesses = sp.witnesses
          /\ sp' = sp]_vars

\* A Committed Schnorr instance has refused an init.
C2_Witness ==
    /\ sp.kind = "Schnorr"
    /\ IsSome(sp.commitment_to_randomness)
    /\ IsSome(sp.witnesses)
    /\ last.op = "init"
    /\ last.result = Err(SubProtocolAlreadyInitialized(sp.id))

\* C3: init on a signature-knowledge sub-protocol that already holds a
\* protocol fails with SubProtocolAlreadyInitialized and leaves the stored
\* protocol (and its commitment randomness) in place.
C3_BBSReinitRefused ==
    [][(sp.kind = "PoKBBSSignatureG1" /\ IsSome(sp.protocol) /\ IsInitCall) =>
          /\ ErrName(last'.result) = "SubProtocolAlreadyInitialized"
          /\ sp'.protocol = sp.protocol]_vars

\* C4: Consumed is terminal for the Schnorr and the two accumulator
\* sub-protocols: once gen_proof_contribution has taken the committed state,
\* every later init fails with SubProtocolAlreadyInitialized and the
\* instance holds no committed state again.
C4_ConsumedIsTerminal ==
    [][(/\ sp.kind \in {"Schnorr", "AccumulatorMembership", "AccumulatorNonMembership"}
        /\ ghost.consumed
        /\ IsInitCall) =>
          /\ ErrName(last'.result) = "SubProtocolAlreadyInitialized"
          /\ ~HasLiveState(sp')]_vars

\* C5: a second init on an accumulator membership or non-membership
\* sub-protocol whose first init succeeded fails with
\* SubProtocolAlreadyInitialized(id) of the instance's own id, calls no
\* collaborator, draws nothing and leaves the stored protocol unchanged.
C5_AccumulatorReinitRefused ==
    [][(/\ sp.kind \in {"AccumulatorMembership", "AccumulatorNonMembership"}
        /\ IsSome(sp.protocol)
        /\ IsInitCall) =>
          /\ last'.result = Err(SubProtocolAlreadyInitialized(sp.id))
          /\ last'.collab = {}
          /\ last'.draws = 0
          /\ sp'.protocol = sp.protocol
          /\ sp' = sp]_vars

\* An initialized accumulator sub-protocol has refused an init.
C5_Witness ==
    /\ sp.kind \in {"AccumulatorMembership", "AccumulatorNonMembership"}
    /\ IsSome(sp.protocol)
    /\ last.op = "init"
    /\ last.result = Err(SubProtocolAlreadyInitialized(sp.id))
    /\ last.collab = {}

\* The slots of [0, max_message_count) that neither the witness (holding
\* the indices `held`) nor the statement holds.
AbsentSlots(self, held) ==
    {i \in 0..(self.statement.params.max_message_count - 1) :
        i \notin held /\ i \notin DOMAIN self.statement.revealed_messages}

\* C6: when signature-knowledge init is called and some slot of
\* [0, max_message_count) is neither in the witness's unrevealed messages
\* nor in the statement's revealed messages, it fails with
\* BBSPlusProtocolMessageAbsent(id, i), i the smallest such slot, calls no
\* collaborator, draws nothing and leaves the instance (its stored
\* protocol) unchanged.
C6_MessageAbsent ==
    [][(/\ sp.kind = "PoKBBSSignatureG1"
        /\ IsInitCall
        /\ AbsentSlots(sp, Unwrap(last'.shape)) # {}) =>
          /\ last'.result = Err(BBSPlusProtocolMessageAbsent(sp.id,
                                MinOf(AbsentSlots(sp, Unwrap(last'.shape)))))
          /\ last'.collab = {}
          /\ last'.draws = 0
          /\ sp'.protocol = sp.protocol
          /\ sp' = sp]_vars

\* An init has failed with BBSPlusProtocolMessageAbsent on an instance that
\* holds a protocol from an earlier init; more than one slot was absent and
\* the error names the smallest.
C6_Witness ==
    /\ sp.kind = "PoKBBSSignatureG1"
    /\ IsSome(sp.protocol)
    /\ last.op = "init"
    /\ Cardinality(AbsentSlots(sp, Unwrap(last.shape))) > 1
    /\ last.result = Err(BBSPlusProtocolMessageAbsent(sp.id,
                          MinOf(AbsentSlots(sp, Unwrap(last.shape)))))
    /\ last.collab = {}

\* C7: whenever signature-knowledge init succeeds, every slot of
\* [0, max_message_count) is held by exactly one of the witness's unrevealed
\* messages and the statement's revealed messages: an input with a slot in
\* both is not accepted.
C7_ExactlyOneSource ==
    [][(sp.kind = "PoKBBSSignatureG1" /\ IsInitCall /\ last'.result.ok) =>
          \A i \in 0..(sp.statement.params.max_message_count - 1) :
              (i \in Unwrap(last'.shape))
                  # (i \in DOMAIN sp.statement.revealed_messages)]_vars

\* C8: challenge_contribution on a sub-protocol of any kind that holds no
\* committed state fails with SubProtocolNotReadyToGenerateChallenge(id) of
\* the instance's own id, writes nothing to the writer, calls no
\* collaborator and leaves the instance unchanged.
C8_ChallengeNotReady ==
    [][(~HasLiveState(sp) /\ IsChallengeCall) =>
          /\ last'.result = Err(SubProtocolNotReadyToGenerateChallenge(sp.id))
          /\ last'.wrote = <<>>
          /\ last'.collab = {}
          /\ sp' = sp]_vars

\* A challenge_contribution was refused on an instance never initialized.
C8_Witness ==
    /\ ~HasLiveState(sp)
    /\ ~ghost.consumed
    /\ last.op = "challenge_contribution"
    /\ last.result = Err(SubProtocolNotReadyToGenerateChallenge(sp.id))
    /\ last.wrote = <<>>

\* Whether init succeeds on the instance whatever its arguments (for the
\* signature sub-protocol: whenever every slot has a message and the
\* collaborator accepts).
InitSucceeds(self) ==
    CASE self.kind = "Schnorr" ->
             \A rng \in RngStreams, b \in SchnorrBlindingMaps, w \in WitnessVectors :
                 SchnorrInit(self, rng, b, w).result.ok
      [] self.kind = "AccumulatorMembership" ->
             \A rng \in RngStreams, b \in OptionalBlindings,
                w \in AccumulatorWitnesses :
                 MemInit(self, rng, b, w).result.ok
      [] self.kind = "AccumulatorNonMembership" ->
             \A rng \in RngStreams, b \in OptionalBlindings,
                w \in AccumulatorWitnesses :
                 NonMemInit(self, rng, b, w).result.ok
      [] OTHER ->
             \A rng \in RngStreams, b \in BBSBlindingMaps, w \in BBSWitnesses :
                 AbsentSlots(self, DOMAIN w.unrevealed_messages) = {} =>
                     BBSInit(self, rng, b, w, TRUE).result.ok

\* Never initialized: no committed state, and none was ever taken.
NeverInitialized == ~HasLiveState(sp) /\ ~ghost.consumed

\* C9: gen_proof_contribution on a sub-protocol of any kind that was never
\* initialized fails with SubProtocolNotReadyToGenerateProof, returns no
\* StatementProof and leaves the instance Uninitialized; an init that
\* follows succeeds (for the signature sub-protocol: when every slot has a
\* message and the collaborator accepts).
C9_GenProofNotReady ==
    /\ [][(NeverInitialized /\ IsGenProofCall) =>
             /\ ErrName(last'.result) = "SubProtocolNotReadyToGenerateProof"
             /\ IsNone(last'.proof)
             /\ last'.collab = {}
             /\ sp' = sp
             /\ NeverInitialized']_vars
    /\ []((NeverInitialized /\ last.op = "gen_proof_contribution") =>
             InitSucceeds(sp))

\* A gen_proof_contribution was refused on an instance never initialized.
C9_Witness ==
    /\ NeverInitialized
    /\ last.op = "gen_proof_contribution"
    /\ ErrName(last.result) = "SubProtocolNotReadyToGenerateProof"
    /\ IsNone(last.proof)

\* The error a sub-protocol answers a proof of another variant with.
IncompatibleError(self) ==
    IF self.kind = "Schnorr"
    THEN ProofIncompatibleWithSchnorrProtocol
    ELSE ProofIncompatibleWithProtocol(self.statement)

\* C10 as claimed: verify_proof_contribution returns a
\* ProofIncompatibleWithProtocol error exactly when the proof's variant tag
\* differs from the sub-protocol's variant, then without calling the
\* collaborator's verify; and a proof returned by gen_proof_contribution
\* carries the tag of the sub-protocol's variant.
C10_IncompatibleIffTagDiffers ==
    [][/\ IsVerifyCall =>
             /\ (ErrName(last'.result) = "ProofIncompatibleWithProtocol")
                    <=> (Unwrap(last'.shape) # OwnTag(sp))
             /\ (Unwrap(last'.shape) # OwnTag(sp)) => last'.collab = {}
       /\ IsSome(last'.proof) => Unwrap(last'.proof).tag = OwnTag(sp)]_vars

\* C10 as amended: the error is ProofIncompatibleWithProtocol(statement) for
\* the signature and accumulator sub-protocols and
\* ProofIncompatibleWithSchnorrProtocol for SchnorrProtocol; it is returned
\* exactly when the proof's variant tag differs from the sub-protocol's
\* variant, then without calling the collaborator's verify and leaving the
\* instance unchanged; with the sub-protocol's own tag the collaborator's
\* verify is called; and a proof returned by gen_proof_contribution carries
\* the tag of the sub-protocol's variant.
C10_IncompatibleIffTagDiffersAmended ==
    [][/\ IsVerifyCall =>
             /\ (last'.result = Err(IncompatibleError(sp)))
                    <=> (Unwrap(last'.shape) # OwnTag(sp))
             /\ (ErrName(last'.result) \in {"ProofIncompatibleWithProtocol",
                                            "ProofIncompatibleWithSchnorrProtocol"})
                    <=> (Unwrap(last'.shape) # OwnTag(sp))
             /\ (Unwrap(last'.shape) # OwnTag(sp)) => last'.collab = {}
             /\ (Unwrap(last'.shape) = OwnTag(sp)) => last'.collab = {"verify"}
             /\ sp' = sp
       /\ IsSome(last'.proof) => Unwrap(last'.proof).tag = OwnTag(sp)]_vars

\* A SchnorrProtocol that has returned its proof has answered a proof of
\* another variant with ProofIncompatibleWithSchnorrProtocol.
C10_Witness ==
    /\ sp.kind = "Schnorr"
    /\ ghost.proofs = 1
    /\ last.op = "verify_proof_contribution"
    /\ Unwrap(last.shape) # "PedersenCommitment"
    /\ last.result = Err(ProofIncompatibleWithSchnorrProtocol)
    /\ last.collab = {}

\* C11 (as stated): two components of a Schnorr proof that were committed
\* with the same blinding, s_a = r + c*w_a and s_b = r + c*w_b, are equal
\* if and only if w_a = w_b, for every challenge c of the field.
C11_EqualResponsesIffEqualWitnesses ==
    [][(sp.kind = "Schnorr" /\ IsGenProofCall /\ IsSome(last'.proof)) =>
          LET b == Unwrap(sp.commitment_to_randomness).blindings
              w == Unwrap(sp.witnesses)
              s == Unwrap(last'.proof).p.response
          IN \A i, j \in 1..Len(w) :
                 (b[i] = b[j]) => ((s[i] = s[j]) <=> (w[i] = w[j]))]_vars

\* C11 (amended): under a shared blinding the two responses are equal if
\* and only if the witnesses are, for every challenge other than zero;
\* under the challenge zero both responses are the blinding itself, equal
\* whatever the witnesses.
C11_EqualResponsesIffEqualWitnessesAmended ==
    [][(sp.kind = "Schnorr" /\ IsGenProofCall /\ IsSome(last'.proof)) =>
          LET b == Unwrap(sp.commitment_to_randomness).blindings
              w == Unwrap(sp.witnesses)
              s == Unwrap(last'.proof).p.response
              c == Unwrap(last'.shape)
          IN \A i, j \in 1..Len(w) :
                 (b[i] = b[j]) =>
                     /\ (c # 0) => ((s[i] = s[j]) <=> (w[i] = w[j]))
                     /\ (c = 0) => (s[i] = b[i] /\ s[j] = b[i])]_vars

\* A proof came back under a nonzero challenge with two components of one
\* blinding (s_i - c*w_i = s_j - c*w_j) and different witnesses, and with
\* different responses.
C11_Witness ==
    /\ sp.kind = "Schnorr"
    /\ last.op = "gen_proof_contribution"
    /\ IsSome(last.proof)
    /\ IsSome(sp.witnesses)
    /\ Unwrap(last.shape) # 0
    /\ LET w == Unwrap(sp.witnesses)
           s == Unwrap(last.proof).p.response
           c == Unwrap(last.shape)
       IN \E i, j \in 1..Len(w) :
              /\ w[i] # w[j]
              /\ FAdd(s[i], FMul(c, w[j])) = FAdd(s[j], FMul(c, w[i]))
              /\ s[i] # s[j]

\* The witnesses the instance holds open its commitment under its key.
OpensCommitment(self) ==
    /\ IsSome(self.witnesses)
    /\ Len(Unwrap(self.witnesses)) = Len(self.commitment_key)
    /\ MultiScalarMul(self.commitment_key, Unwrap(self.witnesses)) = self.commitment

\* C12: Schnorr completeness.  When init was given witnesses that open the
\* commitment under the key, gen_proof_contribution_as_struct(c) returns
\* (t, s) with t the commitment to the blindings of init and
\* s_i = r_i + c*w_i for every component, and
\* verify_proof_contribution_as_struct(c, (t, s)) returns Ok on the instance
\* and on a fresh one of the same key and commitment, for every challenge.
C12_SchnorrCompleteness ==
    [][(/\ sp.kind = "Schnorr"
        /\ IsGenProofCall
        /\ IsSome(sp.commitment_to_randomness)
        /\ OpensCommitment(sp)) =>
          LET b == Unwrap(sp.commitment_to_randomness).blindings
              w == Unwrap(sp.witnesses)
              c == Unwrap(last'.shape)
          IN /\ last'.result = Ok
             /\ IsSome(last'.proof)
             /\ Unwrap(last'.proof).tag = "PedersenCommitment"
             /\ LET p == Unwrap(last'.proof).p
                IN /\ p.t = MultiScalarMul(sp.commitment_key, b)
                   /\ p.response = [i \in 1..Len(w) |-> FAdd(b[i], FMul(c, w[i]))]
                   /\ SchnorrVerifyProofContributionAsStruct(sp', c, p).result = Ok
                   /\ SchnorrVerifyProofContributionAsStruct(
                          SchnorrProtocolNew(sp.id, sp.commitment_key, sp.commitment),
                          c, p).result = Ok]_vars

\* A proof of an opening of every base of the longest key came back under
\* a nonzero challenge, and it verifies.
C12_Witness ==
    /\ sp.kind = "Schnorr"
    /\ last.op = "gen_proof_contribution"
    /\ last.result = Ok
    /\ IsSome(last.proof)
    /\ Unwrap(last.shape) # 0
    /\ OpensCommitment(sp)
    /\ Len(sp.commitment_key) = MaxLen
    /\ sp.commitment # 0
    /\ SchnorrVerifyProofContributionAsStruct(sp, Unwrap(last.shape),
                                              Unwrap(last.proof).p).result = Ok

\* verify_proof_contribution of the instance's kind.
VerifyOutcome(self, challenge, proof) ==
    IF self.kind = "Schnorr"
    THEN SchnorrVerifyProofContribution(self, challenge, proof)
    ELSE SubProtocolVerifyProofContribution(self, challenge, proof)

\* The instance as its constructor made it: same public data, nothing live.
Fresh(self) ==
    CASE self.kind = "Schnorr" ->
             SchnorrProtocolNew(self.id, self.commitment_key, self.commitment)
      [] self.kind = "PoKBBSSignatureG1" ->
             PoKBBSSigG1SubProtocolNew(self.id, self.statement)
      [] self.kind = "AccumulatorMembership" ->
             AccumulatorMembershipSubProtocolNew(self.id, self.statement)
      [] self.kind = "AccumulatorNonMembership" ->
             AccumulatorNonMembershipSubProtocolNew(self.id, self.statement)

\* C13: verify_proof_contribution never changes the sub-protocol.  In every
\* lifecycle state, for every challenge and proof, it leaves the instance as
\* it is, returns no proof, draws and writes nothing, and returns what it
\* returns on a fresh instance of the same public data (so its result is a
\* function of statement, challenge and proof, the same at every call);
\* and every verify call made leaves the instance and its history alone.
C13_VerifyIsPure ==
    /\ [](\A challenge \in Scalars, proof \in ProofInputs :
             LET o == VerifyOutcome(sp, challenge, proof)
             IN /\ o.self = sp
                /\ o.result = VerifyOutcome(Fresh(sp), challenge, proof).result
                /\ IsNone(o.proof)
                /\ o.wrote = <<>>
                /\ o.draws = 0)
    /\ [][IsVerifyCall => (sp' = sp /\ ghost' = ghost)]_vars

\* A verify call succeeded on an instance whose committed state
\* gen_proof_contribution had consumed.
C13_Witness ==
    /\ last.op = "verify_proof_contribution"
    /\ last.result = Ok
    /\ ghost.consumed
    /\ ghost.proofs = 1
    /\ ~HasLiveState(sp)

\* C14: when SchnorrProtocol::gen_proof_contribution returns, with Ok or
\* with Err, and when an init fails, the instance holds no blinding and no
\* witness that is not cleared: zeroize would find nothing to overwrite.
C14_SecretsClearedOnExit ==
    [][(/\ sp.kind = "Schnorr"
        /\ \/ IsGenProofCall
           \/ (IsInitCall /\ ~last'.result.ok)) =>
          SchnorrZeroize(sp') = sp']_vars

\* The errors the sub-protocols' own guards raise.
GuardErrorNames ==
    {"SubProtocolAlreadyInitialized", "SubProtocolNotReadyToGenerateChallenge",
     "SubProtocolNotReadyToGenerateProof", "BBSPlusProtocolMessageAbsent",
     "ProofIncompatibleWithProtocol", "ProofIncompatibleWithSchnorrProtocol"}

IsGuardError(result) == ErrName(result) \in GuardErrorNames

\* What the guards return as a function of public data alone: the id, the
\* statement, whether the slot is full, the indices the witness of a
\* signature init holds, the variant of the proof handed to verify.  None
\* when no guard fires.
ExpectedGuardError(self, op, shape) ==
    CASE op = "init" /\ self.kind = "PoKBBSSignatureG1" ->
             IF AbsentSlots(self, Unwrap(shape)) # {}
             THEN Some(BBSPlusProtocolMessageAbsent(self.id,
                           MinOf(AbsentSlots(self, Unwrap(shape)))))
             ELSE None
      [] op = "init" /\ self.kind # "PoKBBSSignatureG1" ->
             IF HasLiveState(self)
             THEN Some(SubProtocolAlreadyInitialized(self.id))
             ELSE None
      [] op = "challenge_contribution" ->
             IF HasLiveState(self) THEN None
             ELSE Some(SubProtocolNotReadyToGenerateChallenge(self.id))
      [] op = "gen_proof_contribution" ->
             IF HasLiveState(self) THEN None
             ELSE IF self.kind = "Schnorr"
                  THEN Some(SubProtocolNotReadyToGenerateProofId(self.id))
                  ELSE Some(SubProtocolNotReadyToGenerateProofFmt(self.statement))
      [] op = "verify_proof_contribution" ->
             IF Unwrap(shape) = OwnTag(self) THEN None
             ELSE IF self.kind = "Schnorr"
                  THEN Some(ProofIncompatibleWithSchnorrProtocol)
                  ELSE Some(ProofIncompatibleWithProtocol(self.statement))

\* C20: an error raised by a sub-protocol's own guard depends on public
\* data only.  Every call returns the guard error that the id, the
\* statement, the fullness of the slot and the public shape of the
\* arguments determine, and no guard error when they determine none: two
\* runs that share these and differ in the secret witness, signature,
\* blinding and random values return identical error values.
C20_GuardErrorsArePublic ==
    [][LET e == ExpectedGuardError(sp, last'.op, last'.shape)
       IN IF IsSome(e)
          THEN last'.result = Err(Unwrap(e))
          ELSE ~IsGuardError(last'.result)]_vars

\* A signature-knowledge instance whose live protocol holds a signature and
\* hidden messages refused a proof of another variant, with the statement
\* in the error.
C20_Witness ==
    /\ sp.kind = "PoKBBSSignatureG1"
    /\ IsSome(sp.protocol)
    /\ Unwrap(sp.protocol).signature # 0
    /\ Unwrap(sp.protocol).revealed_indices = {}
    /\ last.op = "verify_proof_contribution"
    /\ last.result = Err(ProofIncompatibleWithProtocol(sp.statement))

(***************************************************************************)
(* C17: should_use_cls(min, max) depends on (min, max) only: it is true    *)
(* whenever max - min is below the fixed threshold and false whenever it   *)
(* is at or above it, true for (100, 200) and false for (100, 100 + 2^21), *)
(* and no step of a proving or verifying run changes its value.            *)
(***************************************************************************)
C17_ShouldUseClsByWidth ==
    /\ [](/\ \A range \in CheckRanges :
                /\ (range[2] - range[1] < run.threshold)
                       => ShouldUseCls(range[1], range[2])
                /\ (range[2] - range[1] >= run.threshold)
                       => ~ShouldUseCls(range[1], range[2])
          /\ ShouldUseCls(100, 200)
          /\ ~ShouldUseCls(100, 100 + 2^21))
    /\ [][\A range \in CheckRanges :
              ShouldUseCls(range[1], range[2])'
                  = ShouldUseCls(range[1], range[2])]_vars

\* A proof was made for a range whose width is exactly the threshold.
C17_Witness ==
    /\ run.phase = "proved"
    /\ run.max - run.min = run.threshold
    /\ ~ShouldUseCls(run.min, run.max)

\* The inner strategy the initialized bound-check sub-protocol of the run uses.
StrategyInUse == Unwrap(run.subs[2].protocol).inner

BoundCheckInitialized == run.phase \in {"initialized", "challenged"}

(***************************************************************************)
(* C18: the bound-check sub-protocol uses the CCS strategy when max - min  *)
(* is below the fixed threshold and the CLS strategy when it is above it.  *)
(***************************************************************************)
C18_CcsBelowClsAbove ==
    BoundCheckInitialized =>
        /\ (run.max - run.min < run.threshold) => StrategyInUse = "CCS"
        /\ (run.max - run.min > run.threshold) => StrategyInUse = "CLS"

(***************************************************************************)
(* C18, amended: the bound-check sub-protocol uses the CLS strategy when   *)
(* max - min is below the fixed threshold and the CCS strategy when it is  *)
(* above it.                                                               *)
(***************************************************************************)
C18_ClsBelowCcsAbove ==
    BoundCheckInitialized =>
        /\ (run.max - run.min < run.threshold) => StrategyInUse = "CLS"
        /\ (run.max - run.min > run.threshold) => StrategyInUse = "CCS"

\* The sub-protocol of the range [100, 200) is initialized with CLS.
C18_Witness ==
    /\ BoundCheckInitialized
    /\ run.max - run.min < run.threshold
    /\ StrategyInUse = "CLS"

\* Proof::new has returned a proof.
Proved == run.phase \in {"proved", "done"} /\ run.prove = Some(Ok)

\* proof.verify has returned.
Verified == run.phase = "done" /\ IsSome(run.res)

(***************************************************************************)
(* C19: the inner proof of the bound-check statement proof that prove      *)
(* emits is the CLS variant exactly when should_use_cls(min, max) is true  *)
(* and the CCS variant exactly when it is false, before verification and   *)
(* after it, whatever verification returns.                                *)
(***************************************************************************)
C19_ProofTaggedWithSelectedStrategy ==
    Proved =>
        /\ run.proof[2].tag = "BoundCheckSmcWithKV"
        /\ run.proof[2].p.inner = "CLS" <=> ShouldUseCls(run.min, run.max)
        /\ run.proof[2].p.inner = "CCS" <=> ~ShouldUseCls(run.min, run.max)

\* A CLS-tagged proof that verification has rejected.
C19_Witness ==
    /\ Proved
    /\ Verified
    /\ ~Unwrap(run.res).ok
    /\ run.proof[2].p.inner = "CLS"

\* The bound-check value is the message signed at the linked index.
WitnessesAgree == FrFrom(run.msg) = CheckMsgs(run.min)[run.msg_idx]

\* The bound-check value lies in [min, max).
ValueInRange == run.min <= run.msg /\ run.msg < run.max

(***************************************************************************)
(* C15: when the witnesses satisfy both statements and the equality        *)
(* constraint (a signature over all the messages, a bound check of the     *)
(* message at msg_idx linked by EqualWitnesses{(0, msg_idx), (1, 0)}),     *)
(* prove returns a proof and verify of that proof against the verifier's   *)
(* ProofSpec returns Ok.                                                   *)
(***************************************************************************)
C15_ComposedCompleteness ==
    (WitnessesAgree /\ ValueInRange) =>
        /\ run.phase \in {"proved", "done"} => run.prove = Some(Ok)
        /\ run.phase = "done" => run.res = Some(Ok)

\* The proof of the bound check on message 1 has been verified.
C15_Witness ==
    /\ WitnessesAgree
    /\ ValueInRange
    /\ run.msg_idx = 1
    /\ Proved
    /\ Verified
    /\ run.res = Some(Ok)

\* Every statement proof of the run verified on its own.
PartsVerify == \A i \in DOMAIN run.parts : run.parts[i].ok

RECURSIVE InitInOrder(_, _, _)
InitInOrder(subs, cursor, order) ==
    IF order = <<>>
    THEN subs
    ELSE LET id == Head(order)
             o == SubProtocolInit(subs[id + 1], RngFrom(run.rng, cursor),
                      run.blindings[id + 1],
                      ComposeWitness(id, subs[id + 1].statement.accumulator_value))
         IN InitInOrder([subs EXCEPT ![id + 1] = o.self], cursor + o.draws,
                        Tail(order))

\* The transcript of the run when init is called in the given order.
TranscriptAfter(order) ==
    LET new == [k \in 1..2 |->
                   ComposeNew(k - 1, run.subs[k].statement.accumulator_value)]
        subs == InitInOrder(new, 0, order)
    IN SubProtocolChallengeContribution(subs[1]).wrote
       \o SubProtocolChallengeContribution(subs[2]).wrote

\* The sub-protocols that draw their blinding from the rng.
DrawingSubProtocols == {id \in ComposeIds : IsNone(run.blindings[id + 1])}

\* The challenge is derived once every sub-protocol is initialized and
\* before any proof is generated.
ChallengeBetweenInitAndGenProof ==
    /\ [][run'.hash # run.hash =>
              \A id \in ComposeIds : /\ IsSome(run.subs[id + 1].protocol)
                                     /\ IsNone(run.proofs[id + 1])]_vars
    /\ [][run'.proofs # run.proofs => IsSome(run.hash)]_vars

SortedAscending(indices) ==
    \A j, k \in DOMAIN indices : j < k => indices[j] <= indices[k]

\* The positions of iter that indices does not name, from 1.
MissedPositions(indices, iter) ==
    {k \in 1..Len(iter) : \A j \in DOMAIN indices : indices[j] # k - 1}

\* The items of iter at the given positions, in their original order.
ItemsAt(positions, iter) ==
    [m \in 1..Cardinality(positions) |->
        iter[CHOOSE k \in positions :
                 Cardinality({x \in positions : x <= k}) = m]]

Plucked == run.phase = "pluck_missed" /\ IsSome(run.out)

(***************************************************************************)
(* C23: when indices is sorted ascending, pluck_missed(indices, iter) is   *)
(* exactly the items of iter whose position is not in indices, in their    *)
(* original order; an index at or beyond the length of iter and a repeated *)
(* index remove nothing further: one item is removed for each distinct     *)
(* index below the length.                                                 *)
(***************************************************************************)
C23_PluckMissedKeepsTheMissed ==
    (Plucked /\ SortedAscending(run.indices)) =>
        /\ Unwrap(run.out)
               = ItemsAt(MissedPositions(run.indices, run.iter), run.iter)
        /\ Len(Unwrap(run.out))
               = Len(run.iter)
                   - Cardinality({run.indices[j] : j \in DOMAIN run.indices}
                                 \cap 0..(Len(run.iter) - 1))

\* Sorted indices with a repeated index and an index beyond the last item.
C23_Witness ==
    /\ Plucked
    /\ SortedAscending(run.indices)
    /\ \E j, k \in DOMAIN run.indices :
           j # k /\ run.indices[j] = run.indices[k]
                 /\ run.indices[j] < Len(run.iter)
    /\ \E j \in DOMAIN run.indices : run.indices[j] >= Len(run.iter)
    /\ Len(Unwrap(run.out)) = Len(run.iter) - 1
    /\ Len(run.iter) = MaxItems

\* a is b with some of its items left out.
RECURSIVE IsSubsequence(_, _)
IsSubsequence(a, b) ==
    IF a = <<>>
    THEN TRUE
    ELSE IF b = <<>>
         THEN FALSE
         ELSE IF Head(a) = Head(b)
              THEN IsSubsequence(Tail(a), Tail(b)) \/ IsSubsequence(a, Tail(b))
              ELSE IsSubsequence(a, Tail(b))

\* The number of items among the first k that the outcomes skip, when at
\* most n may be skipped.
RECURSIVE SkippedAmong(_, _, _)
SkippedAmong(outcomes, k, n) ==
    IF k = 0
    THEN 0
    ELSE LET before == SkippedAmong(outcomes, k - 1, n)
         IN IF before < n /\ ~outcomes[k] THEN before + 1 ELSE before

Skipped == run.phase = "skip_up_to_n" /\ IsSome(run.out)

(***************************************************************************)
(* C24: for every sequence of outcomes of the random generator,            *)
(* skip_up_to_n(rng, iter, n) is a subsequence of iter in original order   *)
(* that omits at most n items; once n items have been skipped every        *)
(* remaining item is yielded, and with n = 0 the result equals iter.       *)
(***************************************************************************)
C24_SkipUpToNSkipsAtMostN ==
    Skipped =>
        LET out == Unwrap(run.out)
        IN /\ IsSubsequence(out, run.iter)
           /\ Len(run.iter) - Len(out) <= run.n
           /\ \A k \in 1..Len(run.iter) :
                  SkippedAmong(run.rng, k, run.n) = run.n =>
                      SubSeq(out, Len(out) - (Len(run.iter) - k) + 1, Len(out))
                          = SubSeq(run.iter, k + 1, Len(run.iter))
           /\ run.n = 0 => out = run.iter

\* The allowance is used up before the end and the rng would skip more.
C24_Witness ==
    /\ Skipped
    /\ run.n = 1
    /\ Len(run.iter) = MaxItems
    /\ run.rng = [k \in 1..MaxItems |-> FALSE]
    /\ Len(Unwrap(run.out)) = MaxItems - 1

\* SchnorrProtocol::init has returned Ok.
SchnorrInitReturnedOk ==
    /\ run.phase = "SchnorrProtocol::init"
    /\ IsSome(run.out)
    /\ Unwrap(run.out).result.ok

\* The positions of the witnesses the blindings map has no entry for.
MissingPositions ==
    {i \in 0..(Len(run.witnesses) - 1) : i \notin DOMAIN run.blindings}

\* The map without its entries at or beyond the number of witnesses.
BlindingsInRange ==
    [i \in DOMAIN run.blindings \cap 0..(Len(run.witnesses) - 1) |->
        run.blindings[i]]

(***************************************************************************)
(* C25: SchnorrProtocol::init builds exactly witnesses.len() blindings:    *)
(* position i holds the caller's blinding when the map has key i and       *)
(* otherwise a scalar drawn from the rng; the rng is consulted once for    *)
(* each position missing from the map, in ascending position order, and    *)
(* the entries of the map with key >= witnesses.len() change nothing.      *)
(***************************************************************************)
C25_BlindingsSuppliedOrDrawn ==
    SchnorrInitReturnedOk =>
        LET o == Unwrap(run.out)
            built == Unwrap(o.self.commitment_to_randomness).blindings
        IN /\ Len(built) = Len(run.witnesses)
           /\ \A i \in DOMAIN BlindingsInRange : built[i + 1] = run.blindings[i]
           /\ \A i \in MissingPositions :
                  built[i + 1]
                      = run.rng[Cardinality({j \in MissingPositions : j <= i})]
           /\ o.draws = Cardinality(MissingPositions)
           /\ o = SchnorrInit(run.self, run.rng, BlindingsInRange, run.witnesses)

\* A supplied blinding comes before a drawn one, and the map has an entry
\* beyond the last witness.
C25_Witness ==
    /\ SchnorrInitReturnedOk
    /\ Len(run.witnesses) = MaxLen
    /\ 0 \in DOMAIN run.blindings
    /\ (MaxLen - 1) \in MissingPositions
    /\ MaxLen \in DOMAIN run.blindings
    /\ Unwrap(run.out).draws = 1

\* The latest call was a challenge_contribution that wrote its bytes.
WroteContribution == last.op = "challenge_contribution" /\ last.result.ok

(***************************************************************************)
(* C26: challenge_contribution of a Committed SchnorrProtocol writes the   *)
(* commitment key, then the commitment C, then t; it leaves the instance   *)
(* unchanged and a further call writes the same bytes; and                 *)
(* compute_challenge_contribution(commitment_key, C, t), with t taken from *)
(* the proof that gen_proof_contribution then returns, writes those bytes  *)
(* too.                                                                    *)
(***************************************************************************)
C26_ProverAndVerifierTranscriptsMatch ==
    /\ [][(sp.kind = "Schnorr" /\ IsSome(sp.commitment_to_randomness)
             /\ IsChallengeCall) =>
              /\ last'.result = Ok
              /\ sp' = sp
              /\ last'.wrote
                     = SerSlice(sp.commitment_key) \o SerElem(sp.commitment)
                         \o SerElem(Unwrap(sp.commitment_to_randomness).t)
              /\ WroteContribution => last'.wrote = last.wrote]_vars
    /\ [][(sp.kind = "Schnorr" /\ WroteContribution /\ IsGenProofCall
             /\ IsSome(last'.proof)) =>
              SchnorrComputeChallengeContribution(sp.commitment_key,
                  sp.commitment, Unwrap(last'.proof).p.t) = last.wrote]_vars

\* A proof has been returned for a commitment to a full-length witness.
C26_Witness ==
    /\ sp.kind = "Schnorr"
    /\ last.op = "gen_proof_contribution"
    /\ IsSome(last.proof)
    /\ Len(Unwrap(last.proof).p.response) = MaxLen
    /\ Unwrap(last.proof).p.t # sp.commitment
    /\ SchnorrComputeChallengeContribution(sp.commitment_key, sp.commitment,
           Unwrap(last.proof).p.t) # <<>>

BBSInitReturned == run.phase = "PoKBBSSigG1SubProtocol::init" /\ IsSome(run.out)

\* The witness without its entries at or beyond max_message_count.
WitnessInRange ==
    [run.witness EXCEPT !.unrevealed_messages =
        [i \in DOMAIN run.witness.unrevealed_messages
               \cap 0..(run.self.statement.params.max_message_count - 1) |->
            run.witness.unrevealed_messages[i]]]

(***************************************************************************)
(* C27: when signature-knowledge init succeeds, the message vector handed  *)
(* to the collaborator has length max_message_count; entry i is the        *)
(* witness's value when the witness supplies slot i and otherwise the      *)
(* statement's revealed value; the revealed indices handed on are exactly  *)
(* the slots the statement reveals and the witness does not supply; the    *)
(* entries of the witness with index >= max_message_count change nothing   *)
(* and cause no error.                                                     *)
(***************************************************************************)
C27_MessagesFromWitnessThenStatement ==
    BBSInitReturned =>
        LET o == Unwrap(run.out)
            n == run.self.statement.params.max_message_count
            unrevealed == run.witness.unrevealed_messages
            revealed == run.self.statement.revealed_messages
        IN /\ o.result.ok =>
                  LET protocol == Unwrap(o.self.protocol)
                  IN /\ Len(protocol.messages) = n
                     /\ \A i \in 0..(n - 1) :
                            protocol.messages[i + 1]
                                = IF i \in DOMAIN unrevealed
                                  THEN unrevealed[i] ELSE revealed[i]
                     /\ protocol.revealed_indices
                            = (DOMAIN revealed \ DOMAIN unrevealed) \cap 0..(n - 1)
           /\ o = BBSInit(run.self, run.rng, run.blindings, WitnessInRange,
                          run.sound)
           /\ (run.sound /\ \A i \in 0..(n - 1) :
                                i \in DOMAIN unrevealed \cup DOMAIN revealed)
                  => o.result.ok

\* The witness and the statement hold different values for slot 0, the
\* statement alone holds the last slot, and the witness has an entry beyond.
C27_Witness ==
    /\ BBSInitReturned
    /\ Unwrap(run.out).result.ok
    /\ 0 \in DOMAIN run.witness.unrevealed_messages
    /\ 0 \in DOMAIN run.self.statement.revealed_messages
    /\ run.witness.unrevealed_messages[0] # run.self.statement.revealed_messages[0]
    /\ (MaxMsgs - 1) \notin DOMAIN run.witness.unrevealed_messages
    /\ MaxMsgs \in DOMAIN run.witness.unrevealed_messages
    /\ Unwrap(Unwrap(run.out).self.protocol).revealed_indices = {MaxMsgs - 1}

\* The committed state was taken since the latest successful init and no
\* proof came of it: the proof generation failed in the collaborator.
FailedGeneration == ghost.consumed /\ ghost.proofs = 0

CollaboratorErrorNames == {"BBSPlusError", "SchnorrError::ExpectedSameSizeSequences"}

\* C28: gen_proof_contribution takes the committed state before it asks the
\* collaborator.  When a gen_proof_contribution on a live instance fails, the
\* error is the collaborator's, no proof is returned and the instance holds
\* no live protocol afterwards; from then on, until an init succeeds, every
\* gen_proof_contribution fails with SubProtocolNotReadyToGenerateProof and
\* every challenge_contribution with SubProtocolNotReadyToGenerateChallenge,
\* both leaving the instance as it is: the failed generation is not retried
\* on the same commitment.
C28_FailedGenProofConsumes ==
    /\ [][(HasLiveState(sp) /\ IsGenProofCall /\ ~last'.result.ok) =>
             /\ ErrName(last'.result) \in CollaboratorErrorNames
             /\ last'.collab # {}
             /\ IsNone(last'.proof)
             /\ ~HasLiveState(sp')
             /\ FailedGeneration']_vars
    /\ [][(FailedGeneration /\ IsGenProofCall) =>
             /\ ErrName(last'.result) = "SubProtocolNotReadyToGenerateProof"
             /\ IsNone(last'.proof)
             /\ last'.collab = {}
             /\ sp' = sp
             /\ FailedGeneration']_vars
    /\ [][(FailedGeneration /\ IsChallengeCall) =>
             /\ last'.result = Err(SubProtocolNotReadyToGenerateChallenge(sp.id))
             /\ last'.wrote = <<>>
             /\ sp' = sp
             /\ FailedGeneration']_vars

\* A gen_proof_contribution was refused after the collaborator had failed
\* the one before it.
C28_Witness ==
    /\ FailedGeneration
    /\ ~HasLiveState(sp)
    /\ last.op = "gen_proof_contribution"
    /\ ErrName(last.result) = "SubProtocolNotReadyToGenerateProof"
    /\ IsNone(last.proof)

\* C29: invariant of SchnorrProtocol over every sequence of init,
\* challenge_contribution, gen_proof_contribution and
\* verify_proof_contribution calls.  Whenever commitment_to_randomness is
\* present, witnesses is present and has as many entries as the commitment
\* has blindings, so that neither unwrap() meets an empty slot; and no call
\* changes id, commitment_key or commitment.
C29_SchnorrSlotsConsistent ==
    /\ []((sp.kind = "Schnorr" /\ IsSome(sp.commitment_to_randomness)) =>
             /\ IsSome(sp.witnesses)
             /\ Len(Unwrap(sp.witnesses))
                    = Len(Unwrap(sp.commitment_to_randomness).blindings))
    /\ [][sp.kind = "Schnorr" =>
             /\ sp'.kind = "Schnorr"
             /\ sp'.id = sp.id
             /\ sp'.commitment_key = sp.commitment_key
             /\ sp'.commitment = sp.commitment]_vars

\* A SchnorrProtocol holding a commitment to randomness over MaxLen witnesses
\* has answered a challenge_contribution.
C29_Witness ==
    /\ sp.kind = "Schnorr"
    /\ IsSome(sp.commitment_to_randomness)
    /\ IsSome(sp.witnesses)
    /\ Len(Unwrap(sp.witnesses)) = MaxLen
    /\ Len(Unwrap(sp.commitment_to_randomness).blindings) = MaxLen
    /\ last.op = "challenge_contribution"
    /\ last.result.ok

BBSInitFailed == BBSInitReturned /\ ~Unwrap(run.out).result.ok

\* C30: a failing init of the signature sub-protocol, whether it fails with
\* BBSPlusProtocolMessageAbsent or with the error of the collaborator's init,
\* leaves the instance, and with it the stored protocol, exactly as it was
\* before the call.  On an instance that held no protocol the slot is still
\* empty: challenge_contribution fails with
\* SubProtocolNotReadyToGenerateChallenge and gen_proof_contribution with
\* SubProtocolNotReadyToGenerateProof, whatever the challenge, and neither
\* changes the instance.
C30_FailedInitLeavesProtocol ==
    BBSInitFailed =>
        LET o == Unwrap(run.out)
        IN /\ ErrName(o.result) \in {"BBSPlusProtocolMessageAbsent", "BBSPlusError"}
           /\ o.self.protocol = run.self.protocol
           /\ o.self = run.self
           /\ IsNone(run.self.protocol) =>
                  /\ BBSChallengeContribution(o.self)
                         = Fail(o.self, SubProtocolNotReadyToGenerateChallenge(o.self.id))
                  /\ \A challenge \in Scalars, sound \in BOOLEAN :
                         LET g == BBSGenProofContribution(o.self, challenge, sound)
                         IN /\ ErrName(g.result) = "SubProtocolNotReadyToGenerateProof"
                            /\ IsNone(g.proof)
                            /\ g.self = o.self

\* The collaborator's init failed on an instance that held no protocol, with
\* every slot of the statement covered.
C30_Witness ==
    /\ BBSInitFailed
    /\ ErrName(Unwrap(run.out).result) = "BBSPlusError"
    /\ IsNone(run.self.protocol)
    /\ IsNone(Unwrap(run.out).self.protocol)

====
